---------------------------- MODULE Spec2Model ----------------------------
(***************************************************************************)
(* A model of the tacd broker topic (src/src/broker/topic.rs): a typed     *)
(* publish/subscribe slot with a retained value, two subscriber registries *)
(* and three async mutexes.  Every `.await` on a lock or on a queue is a   *)
(* step of its own; the synchronous code between two awaits is one step.   *)
(*                                                                         *)
(* Option<X> is written as a sequence: <<>> is None, <<x>> is Some(x).     *)
(* The payload type E is instantiated as u8; byte strings are sequences    *)
(* of ASCII codes.                                                         *)
(***************************************************************************)
EXTENDS Integers, Sequences, FiniteSets, TLC

\* ---------------------------------------------------------------- bounds
NumProcs == 2
MaxCalls == 3
MaxVal == 1
Capacity == 1
NumTopics == 2

Procs == 1..NumProcs
Topics == 1..NumTopics
Vals == 0..MaxVal
Tokens == 1..(MaxCalls + 2)

\* ---------------------------------------------------------------- options
None == <<>>
Some(x) == <<x>>
IsSome(o) == o # <<>>
Unwrap(o) == o[1]

Last(s) == s[Len(s)]

\* ---------------------------------------------------------------- serde_json
IsWs(c) == c \in {32, 10, 13, 9}
IsDigit(c) == c \in 48..57

\* serde_json::to_vec of a u8: its decimal digits
RECURSIVE Encode(_)
Encode(v) == IF v < 10 THEN <<48 + v>> ELSE Append(Encode(v \div 10), 48 + (v % 10))

RECURSIVE SkipWs(_)
SkipWs(b) == IF b # <<>> /\ IsWs(Head(b)) THEN SkipWs(Tail(b)) ELSE b

RECURSIVE TakeDigits(_)
TakeDigits(b) == IF b # <<>> /\ IsDigit(Head(b)) THEN <<Head(b)>> \o TakeDigits(Tail(b)) ELSE <<>>

\* DigitsValue folding the digits from the wrong end
RECURSIVE DigitsValueReversed(_)
DigitsValueReversed(d) ==
    IF d = <<>> THEN 0 ELSE 10 * DigitsValueReversed(Tail(d)) + (Head(d) - 48)

RECURSIVE DigitsValue(_)
DigitsValue(d) == IF d = <<>> THEN 0 ELSE 10 * DigitsValue(SubSeq(d, 1, Len(d) - 1)) + (Last(d) - 48)

\* serde_json::from_slice::<u8>: whitespace, one JSON integer without a
\* leading zero that fits the type, whitespace, end of input.  None is Err.
Decode(b) ==
    LET s == SkipWs(b)
        d == TakeDigits(s)
        rest == SkipWs(SubSeq(s, Len(d) + 1, Len(s)))
    IN  IF \/ d = <<>>
           \/ (Len(d) > 1 /\ d[1] = 48)
           \/ rest # <<>>
           \/ DigitsValue(d) > 255
        THEN None
        ELSE Some(DigitsValue(d))

\* the byte strings handed to set_from_bytes: the encodings of the values,
\* " 1", "1\n" (valid, not canonical) and "", "x", "01", "1x" (invalid)
InputBytes ==
    {Encode(v) : v \in Vals} \cup {<<32, 49>>, <<49, 10>>, <<>>, <<120>>, <<48, 49>>, <<49, 120>>}

\* the same with the encodings of 10 and 255, and "256", which does not fit
WideInputBytes == InputBytes \cup {Encode(10), Encode(255), <<50, 53, 54>>}

\* ---------------------------------------------------------------- RetainedValue
\* RetainedValue::new; encodes counts the calls of serde_json::to_vec made
\* for this value
NewRetained(val) == [native |-> val, serialized |-> None, encodes |-> 0]

\* RetainedValue::native
Native(rv) == rv.native

\* CacheFilled with insert for get_or_insert_with: the value is encoded at
\* every call
CacheFilledAlways(rv) ==
    [rv EXCEPT !.serialized = Some(Encode(rv.native)), !.encodes = @ + 1]

\* RetainedValue::serialized, the cache after the call (get_or_insert_with)
CacheFilled(rv) ==
    IF IsSome(rv.serialized) THEN rv
    ELSE [rv EXCEPT !.serialized = Some(Encode(rv.native)), !.encodes = @ + 1]

\* Serialized with the value itself as its one byte, not its JSON text
SerializedRaw(rv) == <<rv.native>>

\* RetainedValue::serialized, the bytes it returns
Serialized(rv) == Unwrap(CacheFilled(rv).serialized)

\* ---------------------------------------------------------------- channels
\* async_std channels.  User channel 1 carries Arc<E>, user channel 2
\* carries (TopicName, bytes); both are bounded.  Channel 2 + p is the
\* unbounded channel that get() of process p creates.
NativeChans == {1}
SerializedChans == {2}
UserChans == NativeChans \cup SerializedChans
GetChan(p) == 2 + p
\* the unbounded channel that a call of subscribe_unbounded creates
UnboundedChans == {3 + NumProcs}
Chans == UserChans \cup {GetChan(p) : p \in Procs} \cup UnboundedChans

\* bounded(Capacity) / unbounded(): empty, open, receiver alive
NewChan(cap) == [buf |-> <<>>, cap |-> cap, closed |-> FALSE, rx |-> TRUE]

\* Sender::try_send: the outcome and the channel afterwards
TrySend(ch, msg) ==
    IF ch.closed THEN [res |-> "closed", ch |-> ch]
    ELSE IF IsSome(ch.cap) /\ Len(ch.buf) >= Unwrap(ch.cap) THEN [res |-> "full", ch |-> ch]
    ELSE [res |-> "ok", ch |-> [ch EXCEPT !.buf = Append(@, msg)]]

\* Sender::close
Close(ch) == [ch EXCEPT !.closed = TRUE]

\* Offer without s.close() for a full queue
OfferLeavesOpen(ch, msg) ==
    LET r == TrySend(ch, msg)
    IN  CASE r.res = "ok" -> [keep |-> TRUE, ch |-> r.ch, sent |-> TRUE]
          [] r.res = "full" -> [keep |-> FALSE, ch |-> ch, sent |-> FALSE]
          [] r.res = "closed" -> [keep |-> FALSE, ch |-> ch, sent |-> FALSE]

\* Offer with a full queue skipped: the message is dropped, the entry stays
OfferSkipsFull(ch, msg) ==
    LET r == TrySend(ch, msg)
    IN  CASE r.res = "ok" -> [keep |-> TRUE, ch |-> r.ch, sent |-> TRUE]
          [] r.res = "full" -> [keep |-> TRUE, ch |-> ch, sent |-> FALSE]
          [] r.res = "closed" -> [keep |-> FALSE, ch |-> ch, sent |-> FALSE]

\* Offer that keeps the entry of a queue that is closed
OfferKeepsClosed(ch, msg) ==
    LET r == TrySend(ch, msg)
    IN  CASE r.res = "ok" -> [keep |-> TRUE, ch |-> r.ch, sent |-> TRUE]
          [] r.res = "full" -> [keep |-> FALSE, ch |-> Close(ch), sent |-> FALSE]
          [] r.res = "closed" -> [keep |-> TRUE, ch |-> ch, sent |-> FALSE]

\* the closure of senders.retain / senders_serialized.retain applied to one
\* entry: whether the entry is kept, the channel afterwards, and whether
\* try_send has enqueued the message
Offer(ch, msg) ==
    LET r == TrySend(ch, msg)
    IN  CASE r.res = "ok" -> [keep |-> TRUE, ch |-> r.ch, sent |-> TRUE]
          [] r.res = "full" -> [keep |-> FALSE, ch |-> Close(ch), sent |-> FALSE]
          [] r.res = "closed" -> [keep |-> FALSE, ch |-> ch, sent |-> FALSE]

\* Retain that gives up at the first entry whose queue does not take the
\* message: the entries behind it stay, and get nothing
RECURSIVE RetainStopsAtFailure(_, _, _)
RetainStopsAtFailure(regs, chs, msg) ==
    IF regs = <<>> THEN [kept |-> <<>>, chans |-> chs, sent |-> {}]
    ELSE LET e == Head(regs)
             o == Offer(chs[e[2]], msg)
             r == RetainStopsAtFailure(Tail(regs), [chs EXCEPT ![e[2]] = o.ch], msg)
         IN  IF o.keep
             THEN [kept |-> <<e>> \o r.kept, chans |-> r.chans,
                   sent |-> IF o.sent THEN {e[1]} \cup r.sent ELSE r.sent]
             ELSE [kept |-> Tail(regs), chans |-> [chs EXCEPT ![e[2]] = o.ch], sent |-> {}]

\* Vec::retain over a registry of <<token, channel>> entries, front to back:
\* the entries kept, the channels afterwards, and the tokens of the entries
\* the message was enqueued for
RECURSIVE Retain(_, _, _)
Retain(regs, chs, msg) ==
    IF regs = <<>> THEN [kept |-> <<>>, chans |-> chs, sent |-> {}]
    ELSE LET e == Head(regs)
             o == Offer(chs[e[2]], msg)
             r == Retain(Tail(regs), [chs EXCEPT ![e[2]] = o.ch], msg)
         IN  [kept |-> IF o.keep THEN <<e>> \o r.kept ELSE r.kept,
              chans |-> r.chans,
              sent |-> IF o.sent THEN {e[1]} \cup r.sent ELSE r.sent]

\* senders_serialized.retain(..): val.serialized() is called for every
\* entry, front to back, and val is the RetainedValue after the calls
RECURSIVE RetainSerialized(_, _, _, _)
RetainSerialized(regs, chs, path, val) ==
    IF regs = <<>> THEN [kept |-> <<>>, chans |-> chs, sent |-> {}, val |-> val]
    ELSE LET e == Head(regs)
             o == Offer(chs[e[2]], <<path, Serialized(val)>>)
             r == RetainSerialized(Tail(regs), [chs EXCEPT ![e[2]] = o.ch], path,
                                   CacheFilled(val))
         IN  [kept |-> IF o.keep THEN <<e>> \o r.kept ELSE r.kept,
              chans |-> r.chans,
              sent |-> IF o.sent THEN {e[1]} \cup r.sent ELSE r.sent,
              val |-> r.val]

\* TopicName of a topic
Path(t) == t

\* Position with iter().position(|_| true): the first entry, whatever its
\* token
PositionOfAny(regs, tok) == IF regs = <<>> THEN 0 ELSE 1

\* iter().position(|(token, _)| *token == self.token): 0 stands for None
RECURSIVE Position(_, _)
Position(regs, tok) ==
    IF regs = <<>> THEN 0
    ELSE IF Head(regs)[1] = tok THEN 1
    ELSE LET r == Position(Tail(regs), tok) IN IF r = 0 THEN 0 ELSE r + 1

\* SwapRemove with truncate(idx): the entry and all behind it are removed
SwapRemoveTruncates(regs, idx) == SubSeq(regs, 1, idx - 1)

\* Vec::swap_remove: the last entry takes the place of the removed one
SwapRemove(regs, idx) ==
    LET n == Len(regs)
    IN  IF idx = n THEN SubSeq(regs, 1, n - 1)
        ELSE [i \in 1..(n - 1) |-> IF i = idx THEN regs[n] ELSE regs[i]]

\* RemoveToken with swap_remove(idx.unwrap_or(len - 1)): without the token
\* the last entry is removed
RemoveTokenOrLast(regs, tok) ==
    LET idx == Position(regs, tok)
    IN  IF idx # 0 THEN SwapRemove(regs, idx)
        ELSE IF regs # <<>> THEN SwapRemove(regs, Len(regs)) ELSE regs

\* the body of both unsubscribe functions, on the locked registry
RemoveToken(regs, tok) ==
    LET idx == Position(regs, tok)
    IN  IF idx # 0 THEN SwapRemove(regs, idx) ELSE regs

TokensOf(regs) == {regs[i][1] : i \in 1..Len(regs)}
ChansOf(regs) == {regs[i][2] : i \in 1..Len(regs)}

\* the closures handed to modify: "guard" turns 0 into 1 and changes nothing
\* else, "incr" counts modulo MaxVal + 1 from 0, "keep" changes nothing
Transforms == {"guard", "incr", "keep"}

\* ---------------------------------------------------------------- state
VARIABLES
    cfg,                 \* the topics, values, transforms and bytes the callers use
    alive,               \* per topic: an Arc<Topic> exists, the topic is not dropped
    retained,            \* Topic::retained, per topic: Option<RetainedValue>
    senders,             \* Topic::senders, per topic: Vec<(Unique, Sender)>
    senders_serialized,  \* Topic::senders_serialized, per topic
    lock,                \* the holder of each of the three mutexes, 0 = free
    chan,                \* the channels
    next_token,          \* the counter behind Unique::new()
    handles,             \* the SubscriptionHandles the callers hold; history:
                         \* the channel subscribed, the publishes seen then,
                         \* and whether unsubscribe was called on a borrowed one
    pc,                  \* per process: the await it is at
    loc,                 \* per process: the arguments and locals of its call
    budget,              \* the number of calls that may still be made
    ret,                 \* the call that returned in the last step, and its result
    published,           \* history: per topic, the values published, in the
                         \* order of their assignment to the retained slot
    last_input,          \* history: per topic, the bytes the last publish was
                         \* decoded from, None when it was not set_from_bytes
    hist,                \* history: per registered token, the publishes seen at
                         \* registration and the messages enqueued since
    run,                 \* Temperatures::run, the AtomicBool the thread loads
    polled               \* history of the polling thread: the iterations begun,
                         \* whether the Temperatures object was dropped, and
                         \* the number of publishes made by then

vars == <<cfg, alive, retained, senders, senders_serialized, lock, chan, next_token,
          handles, pc, loc, budget, ret, published, last_input, hist, run, polled>>

topicVars == <<retained, senders, senders_serialized, published, last_input>>

Free == 0

IdleLoc == [op |-> "idle", t |-> 0, msg |-> None, cb |-> "", tok |-> 0, q |-> 0,
            bytes |-> <<>>, from |-> 0, seen |-> None, val |-> None, task |-> ""]

NoPolls == [iterations |-> 0, dropped |-> FALSE, at_drop |-> 0]

NoRet == [p |-> 0, op |-> "none", t |-> 0, ok |-> TRUE, val |-> None, cb |-> "", seen |-> None,
          bytes |-> <<>>, from |-> 0, at |-> 0, waited |-> FALSE, gone |-> FALSE,
          out |-> None]

NoHist == [since |-> 0, got |-> <<>>]

\* a channel whose sender and receiver are both gone
DeadChan == [buf |-> <<>>, cap |-> None, closed |-> TRUE, rx |-> FALSE]

\* the state after the broker is built: no subscriber, locks free, and in
\* the topics of `init` the value 0
InitFor(c, n, init) ==
    /\ cfg = c
    /\ run = TRUE
    /\ polled = NoPolls
    /\ alive = [t \in Topics |-> TRUE]
    /\ budget = n
    /\ retained = [t \in Topics |-> IF t \in init THEN Some(NewRetained(0)) ELSE None]
    /\ senders = [t \in Topics |-> <<>>]
    /\ senders_serialized = [t \in Topics |-> <<>>]
    /\ lock = [t \in Topics |-> [retained |-> Free, senders |-> Free, senders_serialized |-> Free]]
    /\ chan = [q \in Chans |-> IF q \in UserChans THEN NewChan(Some(Capacity)) ELSE DeadChan]
    /\ next_token = 1
    /\ handles = {}
    /\ pc = [p \in Procs |-> "idle"]
    /\ loc = [p \in Procs |-> IdleLoc]
    /\ ret = NoRet
    /\ published = [t \in Topics |-> IF t \in init THEN <<0>> ELSE <<>>]
    /\ last_input = [t \in Topics |-> None]
    /\ hist = [k \in Tokens |-> NoHist]

\* one topic, every value and every transform
AllCallers == [topics |-> {1}, vals |-> Vals, cbs |-> Transforms, inputs |-> InputBytes]

Init == InitFor(AllCallers, MaxCalls, {})

\* ---------------------------------------------------------------- mutexes
\* Acquire on one mutex shared by all topics
AcquireOfAll(t, name, p) == [u \in Topics |-> [lock[u] EXCEPT ![name] = p]]

Acquire(t, name, p) == [lock EXCEPT ![t][name] = p]
ReleaseAll(t, p) ==
    [lock EXCEPT ![t] = [n \in DOMAIN lock[t] |-> IF lock[t][n] = p THEN Free ELSE lock[t][n]]]

\* the place of a mutex in the order of locking
Rank(name) ==
    CASE name = "retained" -> 1
      [] name = "senders" -> 2
      [] name = "senders_serialized" -> 3

\* the mutex whose lock().await process p is at, "none" when it is at none
Wanted(p) ==
    CASE pc[p] \in {"set_retained", "modify_retained", "get_retained", "try_get_retained"}
            -> "retained"
      [] pc[p] \in {"set_senders", "get_subscribe", "subscribe_senders", "unsubscribe_senders",
                    "get_unsubscribe"}
            -> "senders"
      [] pc[p] \in {"set_serialized", "subscribe_serialized", "unsubscribe_serialized"}
            -> "senders_serialized"
      [] OTHER -> "none"

\* the mutexes of topic t that process p holds
Held(p, t) == {n \in DOMAIN lock[t] : lock[t][n] = p}

\* ---------------------------------------------------------------- publish
\* SetArcWithRetainLock writing the new value into the old RetainedValue,
\* whose cache stays
SetArcKeepsCache(sndrs, sers, chs, path, msg, old) ==
    LET val == NewRetained(msg)
        n == Retain(sndrs, chs, Native(val))
        s == Retain(sers, n.chans, <<path, Serialized(val)>>)
    IN  [senders |-> n.kept,
         senders_serialized |-> s.kept,
         chans |-> s.chans,
         sent |-> n.sent \cup s.sent,
         retained |-> IF IsSome(old) THEN Some([Unwrap(old) EXCEPT !.native = msg])
                      ELSE Some(IF sers # <<>> THEN CacheFilled(val) ELSE val)]

\* SetArcWithRetainLock with retained.get_or_insert(val) for *retained = Some(val)
SetArcKeepsFirst(sndrs, sers, chs, path, msg, old) ==
    LET val == NewRetained(msg)
        n == Retain(sndrs, chs, Native(val))
        s == Retain(sers, n.chans, <<path, Serialized(val)>>)
    IN  [senders |-> n.kept,
         senders_serialized |-> s.kept,
         chans |-> s.chans,
         sent |-> n.sent \cup s.sent,
         retained |-> IF IsSome(old) THEN old
                      ELSE Some(IF sers # <<>> THEN CacheFilled(val) ELSE val)]

\* set_arc_with_retain_lock once all three locks are held: the fan-out to
\* both registries and the value assigned to *retained.  `old` is the
\* content of the slot before the call.  The native fan-out n is computed
\* first, the serialized one works on the channels it leaves.
SetArcWithRetainLock(sndrs, sers, chs, path, msg, old) ==
    LET val == NewRetained(msg)
        Assign(n, s) ==
            [senders |-> n.kept,
             senders_serialized |-> s.kept,
             chans |-> s.chans,
             sent |-> n.sent \cup s.sent,
             retained |-> Some(s.val)]
        Serialize(n) ==
            CHOOSE r \in {Assign(n, s) : s \in {RetainSerialized(sers, n.chans, path, val)}} : TRUE
    IN  CHOOSE r \in {Serialize(n) : n \in {Retain(sndrs, chs, Native(val))}} : TRUE

\* history: the message is appended to the record of every entry it was
\* enqueued for, and the record of an entry that is removed is forgotten
Delivered(h, before, kept, sent, msg) ==
    [k \in Tokens |->
        LET hk == IF k \in sent \cap TokensOf(before) THEN [h[k] EXCEPT !.got = Append(@, msg)]
                  ELSE h[k]
        IN  IF k \in TokensOf(before) \ TokensOf(kept) THEN NoHist ELSE hk]

Forget(h, tok) == [h EXCEPT ![tok] = NoHist]

\* idle processes are interchangeable: a call is made by the first of them
FirstIdle(p) == pc[p] = "idle" /\ \A o \in Procs : o < p => pc[o] # "idle"

\* a call is made, through an Arc or a reference of the topic
Call(p, label, l) ==
    /\ FirstIdle(p)
    /\ alive[l.t]
    /\ budget > 0
    /\ budget' = budget - 1
    /\ pc' = [pc EXCEPT ![p] = label]
    /\ loc' = [loc EXCEPT ![p] = l]
    /\ ret' = NoRet

\* the two topics of the screensaver task
Buttons == 1
Screen == 2

\* Screen::ScreenSaver, and the screens for which use_screensaver() is true
ScreenSaver == 1
UseScreensaver(s) == s = 0

\* the queue of button events of the screensaver task
TaskChan == 3 + NumProcs

\* the screensaver task in its loop: it holds screen_task and buttons_events
TaskLoc == [IdleLoc EXCEPT !.op = "task", !.t = Screen, !.q = TaskChan, !.task = "screensaver"]

\* the topic of the polling thread, soc_temperature
Soc == 1

\* the polling thread in its loop: it holds soc_temperature_thread
ThreadLoc == [IdleLoc EXCEPT !.op = "thread", !.t = Soc, !.task = "temperatures"]

\* a call returns: to the loop of the screensaver task or to the sleep of
\* the polling thread when one of them made it
Return(p, r) ==
    /\ pc' = [pc EXCEPT ![p] = CASE loc[p].task = "screensaver" -> "task_wait"
                                  [] loc[p].task = "temperatures" -> "thread_sleep"
                                  [] OTHER -> "idle"]
    /\ loc' = [loc EXCEPT ![p] = CASE loc[p].task = "screensaver" -> TaskLoc
                                    [] loc[p].task = "temperatures" -> ThreadLoc
                                    [] OTHER -> IdleLoc]
    /\ ret' = [r EXCEPT !.p = p]
    /\ UNCHANGED budget

\* a call goes on to its next await
Goto(p, label) ==
    /\ pc' = [pc EXCEPT ![p] = label]
    /\ ret' = NoRet
    /\ UNCHANGED <<loc, budget>>

\* set / set_arc are called
CallSet(p, t, v) ==
    /\ Call(p, "set_retained", [IdleLoc EXCEPT !.op = "set", !.t = t, !.msg = Some(v),
                                               !.from = Len(published[t])])
    /\ UNCHANGED <<cfg, run, polled, alive, topicVars, lock, chan, next_token, handles, hist>>

\* SetRetained starting with the lock of senders_serialized, the last of
\* the three, and leaving the lock of retained to the end
SetRetainedTakesLastFirst(p) ==
    /\ pc[p] = "set_retained"
    /\ lock[loc[p].t].senders_serialized = Free
    /\ lock' = Acquire(loc[p].t, "senders_serialized", p)
    /\ Goto(p, "set_senders")
    /\ UNCHANGED <<cfg, run, polled, alive, topicVars, chan, next_token, handles, hist>>

\* set_arc: self.retained.lock().await
SetRetained(p) ==
    /\ pc[p] = "set_retained"
    /\ lock[loc[p].t].retained = Free
    /\ lock' = Acquire(loc[p].t, "retained", p)
    /\ Goto(p, "set_senders")
    /\ UNCHANGED <<cfg, run, polled, alive, topicVars, chan, next_token, handles, hist>>

\* set_arc_with_retain_lock: self.senders.lock().await
SetSenders(p) ==
    /\ pc[p] = "set_senders"
    /\ lock[loc[p].t].senders = Free
    /\ lock' = Acquire(loc[p].t, "senders", p)
    /\ Goto(p, "set_serialized")
    /\ UNCHANGED <<cfg, run, polled, alive, topicVars, chan, next_token, handles, hist>>

\* SetSerialized with s.send(..).await for try_send: the publish goes on
\* when every queue of its subscribers has room
SetSerializedBlocking(p) ==
    /\ pc[p] = "set_serialized"
    /\ lock[loc[p].t].senders_serialized = Free
    /\ \A q \in ChansOf(senders[loc[p].t]) \cup ChansOf(senders_serialized[loc[p].t]) :
          chan[q].closed \/ ~IsSome(chan[q].cap) \/ Len(chan[q].buf) < Unwrap(chan[q].cap)
    /\ LET t == loc[p].t
           msg == Unwrap(loc[p].msg)
       IN  \E r \in {SetArcWithRetainLock(senders[t], senders_serialized[t], chan, Path(t), msg,
                                     retained[t])} :
           /\ senders' = [senders EXCEPT ![t] = r.senders]
           /\ senders_serialized' = [senders_serialized EXCEPT ![t] = r.senders_serialized]
           /\ chan' = r.chans
           /\ retained' = [retained EXCEPT ![t] = r.retained]
           /\ published' = [published EXCEPT ![t] = Append(@, msg)]
           /\ last_input' = [last_input EXCEPT ![t] =
                                IF loc[p].op = "set_from_bytes" THEN Some(loc[p].bytes) ELSE None]
           /\ hist' = Delivered(Delivered(hist, senders[t], r.senders, r.sent, msg),
                                senders_serialized[t], r.senders_serialized, r.sent,
                                <<Path(t), Encode(msg)>>)
           /\ lock' = ReleaseAll(t, p)
           /\ Return(p, [NoRet EXCEPT !.op = loc[p].op, !.t = t, !.val = loc[p].msg,
                                      !.cb = loc[p].cb, !.seen = loc[p].seen, !.bytes = loc[p].bytes,
                                      !.from = loc[p].from, !.at = Len(published[t]) + 1])
    /\ UNCHANGED <<cfg, run, polled, alive, next_token, handles>>

\* set_arc_with_retain_lock: self.senders_serialized.lock().await, the
\* fan-out, the assignment to *retained, and the release of the three guards
SetSerialized(p) ==
    /\ pc[p] = "set_serialized"
    /\ lock[loc[p].t].senders_serialized = Free
    /\ LET t == loc[p].t
           msg == Unwrap(loc[p].msg)
       IN  \E r \in {SetArcWithRetainLock(senders[t], senders_serialized[t], chan, Path(t), msg,
                                     retained[t])} :
           /\ senders' = [senders EXCEPT ![t] = r.senders]
           /\ senders_serialized' = [senders_serialized EXCEPT ![t] = r.senders_serialized]
           /\ chan' = r.chans
           /\ retained' = [retained EXCEPT ![t] = r.retained]
           /\ published' = [published EXCEPT ![t] = Append(@, msg)]
           /\ last_input' = [last_input EXCEPT ![t] =
                                IF loc[p].op = "set_from_bytes" THEN Some(loc[p].bytes) ELSE None]
           /\ hist' = Delivered(Delivered(hist, senders[t], r.senders, r.sent, msg),
                                senders_serialized[t], r.senders_serialized, r.sent,
                                <<Path(t), Encode(msg)>>)
           /\ lock' = ReleaseAll(t, p)
           /\ Return(p, [NoRet EXCEPT !.op = loc[p].op, !.t = t, !.val = loc[p].msg,
                                      !.cb = loc[p].cb, !.seen = loc[p].seen, !.bytes = loc[p].bytes,
                                      !.from = loc[p].from, !.at = Len(published[t]) + 1])
    /\ UNCHANGED <<cfg, run, polled, alive, next_token, handles>>

\* The last step of a publish in two: the try_send calls and the assignment
\* to *retained are not one instruction, and a receiver can take a value
\* from its queue between them.

\* SetFanOut with the guards of the registries dropped after the fan-out and
\* the guard of retained handed back before the assignment
SetFanOutUnlocked(p) ==
    /\ pc[p] = "set_serialized"
    /\ lock[loc[p].t].senders_serialized = Free
    /\ LET t == loc[p].t
           msg == Unwrap(loc[p].msg)
       IN  \E r \in {SetArcWithRetainLock(senders[t], senders_serialized[t], chan, Path(t), msg,
                                          retained[t])} :
           /\ senders' = [senders EXCEPT ![t] = r.senders]
           /\ senders_serialized' = [senders_serialized EXCEPT ![t] = r.senders_serialized]
           /\ chan' = r.chans
           /\ hist' = Delivered(Delivered(hist, senders[t], r.senders, r.sent, msg),
                                senders_serialized[t], r.senders_serialized, r.sent,
                                <<Path(t), Encode(msg)>>)
           /\ lock' = ReleaseAll(t, p)
           /\ pc' = [pc EXCEPT ![p] = "set_assign"]
           /\ loc' = [loc EXCEPT ![p].val = r.retained]
           /\ ret' = NoRet
    /\ UNCHANGED <<cfg, run, polled, alive, retained, published, last_input, next_token, handles, budget>>

\* set_arc_with_retain_lock: self.senders_serialized.lock().await,
\* RetainedValue::new and the two retain calls; the three guards are held
SetFanOut(p) ==
    /\ pc[p] = "set_serialized"
    /\ lock[loc[p].t].senders_serialized = Free
    /\ LET t == loc[p].t
           msg == Unwrap(loc[p].msg)
       IN  \E r \in {SetArcWithRetainLock(senders[t], senders_serialized[t], chan, Path(t), msg,
                                          retained[t])} :
           /\ senders' = [senders EXCEPT ![t] = r.senders]
           /\ senders_serialized' = [senders_serialized EXCEPT ![t] = r.senders_serialized]
           /\ chan' = r.chans
           /\ hist' = Delivered(Delivered(hist, senders[t], r.senders, r.sent, msg),
                                senders_serialized[t], r.senders_serialized, r.sent,
                                <<Path(t), Encode(msg)>>)
           /\ lock' = Acquire(t, "senders_serialized", p)
           /\ pc' = [pc EXCEPT ![p] = "set_assign"]
           /\ loc' = [loc EXCEPT ![p].val = r.retained]
           /\ ret' = NoRet
    /\ UNCHANGED <<cfg, run, polled, alive, retained, published, last_input, next_token, handles, budget>>

\* set_arc_with_retain_lock: *retained = Some(val), and the three guards
\* are dropped
SetAssign(p) ==
    /\ pc[p] = "set_assign"
    /\ LET t == loc[p].t
       IN  /\ retained' = [retained EXCEPT ![t] = loc[p].val]
           /\ published' = [published EXCEPT ![t] = Append(@, Unwrap(loc[p].msg))]
           /\ last_input' = [last_input EXCEPT ![t] =
                                IF loc[p].op = "set_from_bytes" THEN Some(loc[p].bytes) ELSE None]
           /\ lock' = ReleaseAll(t, p)
           /\ Return(p, [NoRet EXCEPT !.op = loc[p].op, !.t = t, !.val = loc[p].msg,
                                      !.cb = loc[p].cb, !.seen = loc[p].seen, !.bytes = loc[p].bytes,
                                      !.from = loc[p].from, !.at = Len(published[t]) + 1])
    /\ UNCHANGED <<cfg, run, polled, alive, senders, senders_serialized, chan, next_token, handles, hist>>

\* ---------------------------------------------------------------- set_from_bytes
\* CallSetFromBytes with unwrap_or_default() for the ? operator
CallSetFromBytesDefault(p, t, b) ==
    /\ FirstIdle(p)
    /\ alive[t]
    /\ budget > 0
    /\ budget' = budget - 1
    /\ LET d == Decode(b)
       IN  /\ pc' = [pc EXCEPT ![p] = "set_retained"]
           /\ loc' = [loc EXCEPT ![p] = [IdleLoc EXCEPT !.op = "set_from_bytes", !.t = t,
                                            !.msg = IF IsSome(d) THEN d ELSE Some(0),
                                            !.bytes = b, !.from = Len(published[t])]]
           /\ ret' = NoRet
    /\ UNCHANGED <<cfg, run, polled, alive, topicVars, lock, chan, next_token, handles, hist>>

\* set_from_bytes is called: serde_json::from_slice(msg)?, then self.set(msg)
CallSetFromBytes(p, t, b) ==
    /\ FirstIdle(p)
    /\ alive[t]
    /\ budget > 0
    /\ budget' = budget - 1
    /\ LET d == Decode(b)
       IN  IF IsSome(d)
           THEN /\ pc' = [pc EXCEPT ![p] = "set_retained"]
                /\ loc' = [loc EXCEPT ![p] = [IdleLoc EXCEPT !.op = "set_from_bytes", !.t = t,
                                                 !.msg = d, !.bytes = b,
                                                 !.from = Len(published[t])]]
                /\ ret' = NoRet
           ELSE /\ pc' = pc
                /\ loc' = loc
                /\ ret' = [NoRet EXCEPT !.p = p, !.op = "set_from_bytes", !.t = t, !.ok = FALSE,
                                        !.bytes = b,
                                        !.from = Len(published[t]), !.at = Len(published[t])]
    /\ UNCHANGED <<cfg, run, polled, alive, topicVars, lock, chan, next_token, handles, hist>>

\* ---------------------------------------------------------------- modify
\* ApplyCb with a screensaver closure that does not ask use_screensaver()
ApplyCbActivates(cb, cur) ==
    CASE cb = "guard" -> IF cur = Some(0) THEN Some(1) ELSE None
      [] cb = "incr" -> IF IsSome(cur) THEN Some((Unwrap(cur) + 1) % (MaxVal + 1)) ELSE Some(0)
      [] cb = "keep" -> None
      [] cb = "screensaver" -> IF IsSome(cur) THEN Some(ScreenSaver) ELSE None

\* cb(retained.as_ref().map(|v| v.native())); "screensaver" is the closure of
\* the screensaver task: screen.and_then(|s| if s.use_screensaver() { .. })
ApplyCb(cb, cur) ==
    CASE cb = "guard" -> IF cur = Some(0) THEN Some(1) ELSE None
      [] cb = "incr" -> IF IsSome(cur) THEN Some((Unwrap(cur) + 1) % (MaxVal + 1)) ELSE Some(0)
      [] cb = "keep" -> None
      [] cb = "screensaver" ->
            IF IsSome(cur) /\ UseScreensaver(Unwrap(cur)) THEN Some(ScreenSaver) ELSE None

\* retained.as_ref().map(|v| v.native())
Current(o) == IF IsSome(o) THEN Some(Native(Unwrap(o))) ELSE None

CallModify(p, t, cb) ==
    /\ Call(p, "modify_retained", [IdleLoc EXCEPT !.op = "modify", !.t = t, !.cb = cb,
                                                  !.from = Len(published[t])])
    /\ UNCHANGED <<cfg, run, polled, alive, topicVars, lock, chan, next_token, handles, hist>>

\* ModifyRetained with unwrap_or(current) for the result of cb: a transform
\* that returns nothing publishes the current value again
ModifyRetainedRepublishes(p) ==
    /\ pc[p] = "modify_retained"
    /\ lock[loc[p].t].retained = Free
    /\ LET t == loc[p].t
           cur == Current(retained[t])
           res == ApplyCb(loc[p].cb, cur)
           new == IF IsSome(res) THEN res ELSE cur
       IN  IF IsSome(new)
           THEN /\ lock' = Acquire(t, "retained", p)
                /\ pc' = [pc EXCEPT ![p] = "set_senders"]
                /\ loc' = [loc EXCEPT ![p].msg = new, ![p].seen = cur]
                /\ ret' = NoRet
                /\ UNCHANGED budget
           ELSE /\ UNCHANGED lock
                /\ Return(p, [NoRet EXCEPT !.op = "modify", !.t = t, !.ok = FALSE,
                                           !.cb = loc[p].cb, !.seen = cur, !.from = loc[p].from,
                                           !.at = Len(published[t])])
    /\ UNCHANGED <<cfg, run, polled, alive, topicVars, chan, next_token, handles, hist>>

\* ModifyRetained as a read followed by a separate set: the guard is dropped
\* after the call of cb and set_arc takes the lock again
ModifyRetainedUnlocked(p) ==
    /\ pc[p] = "modify_retained"
    /\ lock[loc[p].t].retained = Free
    /\ LET t == loc[p].t
           cur == Current(retained[t])
           new == ApplyCb(loc[p].cb, cur)
       IN  IF IsSome(new)
           THEN /\ pc' = [pc EXCEPT ![p] = "set_retained"]
                /\ loc' = [loc EXCEPT ![p].msg = new, ![p].seen = cur]
                /\ ret' = NoRet
                /\ UNCHANGED budget
           ELSE Return(p, [NoRet EXCEPT !.op = "modify", !.t = t, !.ok = FALSE,
                                        !.cb = loc[p].cb, !.seen = cur, !.from = loc[p].from,
                                        !.at = Len(published[t])])
    /\ UNCHANGED <<cfg, run, polled, alive, topicVars, lock, chan, next_token, handles, hist>>

\* ModifyRetained with *retained = None when cb returns None
ModifyRetainedClears(p) ==
    /\ pc[p] = "modify_retained"
    /\ lock[loc[p].t].retained = Free
    /\ LET t == loc[p].t
           cur == Current(retained[t])
           new == ApplyCb(loc[p].cb, cur)
       IN  IF IsSome(new)
           THEN /\ lock' = Acquire(t, "retained", p)
                /\ pc' = [pc EXCEPT ![p] = "set_senders"]
                /\ loc' = [loc EXCEPT ![p].msg = new, ![p].seen = cur]
                /\ ret' = NoRet
                /\ UNCHANGED <<budget, retained>>
           ELSE /\ UNCHANGED lock
                /\ retained' = [retained EXCEPT ![t] = None]
                /\ Return(p, [NoRet EXCEPT !.op = "modify", !.t = t, !.ok = FALSE,
                                           !.cb = loc[p].cb, !.seen = cur, !.from = loc[p].from,
                                           !.at = Len(published[t])])
    /\ UNCHANGED <<cfg, run, polled, alive, senders, senders_serialized, published, last_input, chan,
                   next_token, handles, hist>>

\* modify: self.retained.lock().await and the call of cb; with Some(new) it
\* goes on in set_arc_with_retain_lock holding the lock, with None the
\* guard is dropped and modify returns
ModifyRetained(p) ==
    /\ pc[p] = "modify_retained"
    /\ lock[loc[p].t].retained = Free
    /\ LET t == loc[p].t
           cur == Current(retained[t])
           new == ApplyCb(loc[p].cb, cur)
       IN  IF IsSome(new)
           THEN /\ lock' = Acquire(t, "retained", p)
                /\ pc' = [pc EXCEPT ![p] = "set_senders"]
                /\ loc' = [loc EXCEPT ![p].msg = new, ![p].seen = cur]
                /\ ret' = NoRet
                /\ UNCHANGED budget
           ELSE /\ UNCHANGED lock
                /\ Return(p, [NoRet EXCEPT !.op = "modify", !.t = t, !.ok = FALSE,
                                           !.cb = loc[p].cb, !.seen = cur, !.from = loc[p].from,
                                           !.at = Len(published[t])])
    /\ UNCHANGED <<cfg, run, polled, alive, topicVars, chan, next_token, handles, hist>>

\* ---------------------------------------------------------------- subscribe
\* Sender handles of channel q that exist outside the entry just removed
\* from topic t, whose registries are now sndrs and sers: the caller's own
\* handle of a user channel, any registry, and a subscribe call that has
\* not pushed its entry yet
HasSender(q, t, sndrs, sers) ==
    \/ q \in UserChans
    \/ q \in ChansOf(sndrs) \cup ChansOf(sers)
    \/ \E u \in Topics \ {t} : q \in ChansOf(senders[u]) \cup ChansOf(senders_serialized[u])
    \/ \E p \in Procs : pc[p] \in {"subscribe_senders", "subscribe_serialized"} /\ loc[p].q = q

\* dropping a Sender: the channel is closed when it was the last one
DropSender(chs, q, t, sndrs, sers) ==
    IF HasSender(q, t, sndrs, sers) THEN chs ELSE [chs EXCEPT ![q] = Close(@)]

\* subscribe is called: Unique::new()
CallSubscribe(p, t, q) ==
    /\ q \in NativeChans
    /\ next_token' = next_token + 1
    /\ Call(p, "subscribe_senders", [IdleLoc EXCEPT !.op = "subscribe", !.t = t, !.q = q,
                                                    !.tok = next_token,
                                                    !.from = Len(published[t])])
    /\ UNCHANGED <<cfg, run, polled, alive, topicVars, lock, chan, handles, hist>>

\* subscribe_unbounded is called: unbounded(), then subscribe(tx); the
\* caller keeps rx
CallSubscribeUnbounded(p, t, q) ==
    /\ q \in UnboundedChans
    /\ chan[q] = DeadChan
    /\ chan' = [chan EXCEPT ![q] = NewChan(None)]
    /\ next_token' = next_token + 1
    /\ Call(p, "subscribe_senders", [IdleLoc EXCEPT !.op = "subscribe_unbounded", !.t = t,
                                                    !.q = q, !.tok = next_token,
                                                    !.from = Len(published[t])])
    /\ UNCHANGED <<cfg, run, polled, alive, topicVars, lock, handles, hist>>

\* SubscribeSenders with the retained value enqueued for the new subscriber
SubscribeSendersRetained(p) ==
    /\ pc[p] = "subscribe_senders"
    /\ lock[loc[p].t].senders = Free
    /\ LET t == loc[p].t
           o == IF IsSome(retained[t])
                THEN TrySend(chan[loc[p].q], Native(Unwrap(retained[t]))).ch
                ELSE chan[loc[p].q]
       IN  /\ senders' = [senders EXCEPT ![t] = Append(@, <<loc[p].tok, loc[p].q>>)]
           /\ chan' = [chan EXCEPT ![loc[p].q] = o]
           /\ hist' = [hist EXCEPT ![loc[p].tok] = [since |-> Len(published[t]), got |-> <<>>]]
           /\ handles' = handles \cup {[t |-> t, token |-> loc[p].tok, kind |-> "native",
                                        q |-> loc[p].q, since |-> Len(published[t]),
                                        used |-> FALSE]}
           /\ Return(p, [NoRet EXCEPT !.op = loc[p].op, !.t = t, !.val = Some(loc[p].tok),
                                      !.from = loc[p].from, !.at = Len(published[t])])
    /\ UNCHANGED <<cfg, run, polled, alive, retained, senders_serialized, published, last_input, lock,
                   next_token>>

\* subscribe: self.senders.lock().await.push((token, sender)), handle returned
SubscribeSenders(p) ==
    /\ pc[p] = "subscribe_senders"
    /\ lock[loc[p].t].senders = Free
    /\ LET t == loc[p].t
       IN  /\ senders' = [senders EXCEPT ![t] = Append(@, <<loc[p].tok, loc[p].q>>)]
           /\ hist' = [hist EXCEPT ![loc[p].tok] = [since |-> Len(published[t]), got |-> <<>>]]
           /\ handles' = handles \cup {[t |-> t, token |-> loc[p].tok, kind |-> "native",
                                        q |-> loc[p].q, since |-> Len(published[t]),
                                        used |-> FALSE]}
           /\ Return(p, [NoRet EXCEPT !.op = loc[p].op, !.t = t, !.val = Some(loc[p].tok),
                                      !.from = loc[p].from, !.at = Len(published[t])])
    /\ UNCHANGED <<cfg, run, polled, alive, retained, senders_serialized, published, last_input, lock, chan,
                   next_token>>

\* subscribe_as_bytes is called: Unique::new()
CallSubscribeAsBytes(p, t, q) ==
    /\ q \in SerializedChans
    /\ next_token' = next_token + 1
    /\ Call(p, "subscribe_serialized", [IdleLoc EXCEPT !.op = "subscribe_as_bytes", !.t = t,
                                                       !.q = q, !.tok = next_token,
                                                       !.from = Len(published[t])])
    /\ UNCHANGED <<cfg, run, polled, alive, topicVars, lock, chan, handles, hist>>

\* SubscribeSerialized pushing without the mutex of senders_serialized
SubscribeSerializedUnlocked(p) ==
    /\ pc[p] = "subscribe_serialized"
    /\ LET t == loc[p].t
       IN  /\ senders_serialized' = [senders_serialized EXCEPT ![t] =
                                        Append(@, <<loc[p].tok, loc[p].q>>)]
           /\ hist' = [hist EXCEPT ![loc[p].tok] = [since |-> Len(published[t]), got |-> <<>>]]
           /\ handles' = handles \cup {[t |-> t, token |-> loc[p].tok, kind |-> "serialized",
                                        q |-> loc[p].q, since |-> Len(published[t]),
                                        used |-> FALSE]}
           /\ Return(p, [NoRet EXCEPT !.op = "subscribe_as_bytes", !.t = t,
                                      !.val = Some(loc[p].tok),
                                      !.from = loc[p].from, !.at = Len(published[t])])
    /\ UNCHANGED <<cfg, run, polled, alive, retained, senders, published, last_input, lock, chan, next_token>>

\* subscribe_as_bytes: self.senders_serialized.lock().await.push(..)
SubscribeSerialized(p) ==
    /\ pc[p] = "subscribe_serialized"
    /\ lock[loc[p].t].senders_serialized = Free
    /\ LET t == loc[p].t
       IN  /\ senders_serialized' = [senders_serialized EXCEPT ![t] =
                                        Append(@, <<loc[p].tok, loc[p].q>>)]
           /\ hist' = [hist EXCEPT ![loc[p].tok] = [since |-> Len(published[t]), got |-> <<>>]]
           /\ handles' = handles \cup {[t |-> t, token |-> loc[p].tok, kind |-> "serialized",
                                        q |-> loc[p].q, since |-> Len(published[t]),
                                        used |-> FALSE]}
           /\ Return(p, [NoRet EXCEPT !.op = "subscribe_as_bytes", !.t = t,
                                      !.val = Some(loc[p].tok),
                                      !.from = loc[p].from, !.at = Len(published[t])])
    /\ UNCHANGED <<cfg, run, polled, alive, retained, senders, published, last_input, lock, chan, next_token>>

\* ---------------------------------------------------------------- unsubscribe
\* self.topic.upgrade() is None, the topic of handle h is dropped:
\* unsubscribe returns at once
Upgraded(p, h, op) ==
    /\ FirstIdle(p)
    /\ budget > 0
    /\ budget' = budget - 1
    /\ pc' = pc
    /\ loc' = loc
    /\ ret' = [NoRet EXCEPT !.p = p, !.op = op, !.t = h.t, !.ok = FALSE, !.gone = TRUE,
                            !.val = Some(h.token),
                            !.from = Len(published[h.t]), !.at = Len(published[h.t])]

\* SubscriptionHandle<E, Native>::unsubscribe is called; it consumes the handle
CallUnsubscribe(p, h) ==
    /\ h \in handles
    /\ h.kind = "native"
    /\ handles' = handles \ {h}
    /\ IF alive[h.t]
       THEN Call(p, "unsubscribe_senders", [IdleLoc EXCEPT !.op = "unsubscribe", !.t = h.t,
                                                          !.tok = h.token,
                                                          !.from = Len(published[h.t])])
       ELSE Upgraded(p, h, "unsubscribe")
    /\ UNCHANGED <<cfg, run, polled, alive, topicVars, lock, chan, next_token, hist>>

\* UnsubscribeSenders that finds the entry and leaves it where it is
UnsubscribeSendersKeeps(p) ==
    /\ pc[p] = "unsubscribe_senders"
    /\ lock[loc[p].t].senders = Free
    /\ LET t == loc[p].t
           idx == Position(senders[t], loc[p].tok)
       IN  Return(p, [NoRet EXCEPT !.op = "unsubscribe", !.t = t, !.ok = (idx # 0),
                                   !.val = Some(loc[p].tok),
                                   !.from = loc[p].from, !.at = Len(published[t])])
    /\ UNCHANGED <<cfg, run, polled, alive, topicVars, lock, chan, next_token, handles, hist>>

\* unsubscribe: topic.senders.lock().await, position, swap_remove
UnsubscribeSenders(p) ==
    /\ pc[p] = "unsubscribe_senders"
    /\ lock[loc[p].t].senders = Free
    /\ LET t == loc[p].t
           idx == Position(senders[t], loc[p].tok)
           rest == RemoveToken(senders[t], loc[p].tok)
       IN  /\ senders' = [senders EXCEPT ![t] = rest]
           /\ chan' = IF idx # 0
                      THEN DropSender(chan, senders[t][idx][2], t, rest, senders_serialized[t])
                      ELSE chan
           /\ hist' = IF idx # 0 THEN Forget(hist, loc[p].tok) ELSE hist
           /\ Return(p, [NoRet EXCEPT !.op = "unsubscribe", !.t = t, !.ok = (idx # 0),
                                      !.val = Some(loc[p].tok),
                                      !.from = loc[p].from, !.at = Len(published[t])])
    /\ UNCHANGED <<cfg, run, polled, alive, retained, senders_serialized, published, last_input, lock,
                   next_token, handles>>

\* AnySubscriptionHandle::unsubscribe is called; it borrows the handle
CallUnsubscribeSerialized(p, h) ==
    /\ h \in handles
    /\ h.kind = "serialized"
    /\ handles' = (handles \ {h}) \cup {[h EXCEPT !.used = TRUE]}
    /\ IF alive[h.t]
       THEN Call(p, "unsubscribe_serialized", [IdleLoc EXCEPT !.op = "unsubscribe_serialized",
                                                             !.t = h.t, !.tok = h.token,
                                                             !.from = Len(published[h.t])])
       ELSE Upgraded(p, h, "unsubscribe_serialized")
    /\ UNCHANGED <<cfg, run, polled, alive, topicVars, lock, chan, next_token, hist>>

\* unsubscribe: topic.senders_serialized.lock().await, position, swap_remove
UnsubscribeSerialized(p) ==
    /\ pc[p] = "unsubscribe_serialized"
    /\ lock[loc[p].t].senders_serialized = Free
    /\ LET t == loc[p].t
           idx == Position(senders_serialized[t], loc[p].tok)
           rest == RemoveToken(senders_serialized[t], loc[p].tok)
       IN  /\ senders_serialized' = [senders_serialized EXCEPT ![t] = rest]
           /\ chan' = IF idx # 0
                      THEN DropSender(chan, senders_serialized[t][idx][2], t, senders[t], rest)
                      ELSE chan
           /\ hist' = IF idx # 0 THEN Forget(hist, loc[p].tok) ELSE hist
           /\ Return(p, [NoRet EXCEPT !.op = "unsubscribe_serialized", !.t = t, !.ok = (idx # 0),
                                      !.val = Some(loc[p].tok),
                                      !.from = loc[p].from, !.at = Len(published[t])])
    /\ UNCHANGED <<cfg, run, polled, alive, retained, senders, published, last_input, lock, next_token, handles>>

\* ---------------------------------------------------------------- get
CallGet(p, t) ==
    /\ Call(p, "get_retained", [IdleLoc EXCEPT !.op = "get", !.t = t,
                                               !.from = Len(published[t])])
    /\ UNCHANGED <<cfg, run, polled, alive, topicVars, lock, chan, next_token, handles, hist>>

\* GetRetained with the guard of retained dropped before subscribe_unbounded
GetRetainedUnlocked(p) ==
    /\ pc[p] = "get_retained"
    /\ lock[loc[p].t].retained = Free
    /\ LET t == loc[p].t
       IN  IF IsSome(retained[t])
           THEN /\ Return(p, [NoRet EXCEPT !.op = "get", !.t = t,
                                           !.val = Some(Native(Unwrap(retained[t]))),
                                           !.from = loc[p].from, !.at = Len(published[t])])
                /\ UNCHANGED <<chan, next_token>>
           ELSE /\ chan' = [chan EXCEPT ![GetChan(p)] = NewChan(None)]
                /\ next_token' = next_token + 1
                /\ pc' = [pc EXCEPT ![p] = "get_subscribe"]
                /\ loc' = [loc EXCEPT ![p].tok = next_token, ![p].q = GetChan(p)]
                /\ ret' = NoRet
                /\ UNCHANGED budget
    /\ UNCHANGED <<cfg, run, polled, alive, topicVars, lock, handles, hist>>

\* get: self.retained.lock().await; with a value it returns v.native() and
\* drops the guard, without one it keeps the guard and enters
\* subscribe_unbounded: unbounded(), Unique::new()
GetRetained(p) ==
    /\ pc[p] = "get_retained"
    /\ lock[loc[p].t].retained = Free
    /\ LET t == loc[p].t
       IN  IF IsSome(retained[t])
           THEN /\ Return(p, [NoRet EXCEPT !.op = "get", !.t = t,
                                           !.val = Some(Native(Unwrap(retained[t]))),
                                           !.from = loc[p].from, !.at = Len(published[t])])
                /\ UNCHANGED <<lock, chan, next_token>>
           ELSE /\ lock' = Acquire(t, "retained", p)
                /\ chan' = [chan EXCEPT ![GetChan(p)] = NewChan(None)]
                /\ next_token' = next_token + 1
                /\ pc' = [pc EXCEPT ![p] = "get_subscribe"]
                /\ loc' = [loc EXCEPT ![p].tok = next_token, ![p].q = GetChan(p)]
                /\ ret' = NoRet
                /\ UNCHANGED budget
    /\ UNCHANGED <<cfg, run, polled, alive, topicVars, handles, hist>>

\* get: subscribe: self.senders.lock().await.push((token, sender)); the end
\* of the block drops the guard of retained
GetSubscribe(p) ==
    /\ pc[p] = "get_subscribe"
    /\ lock[loc[p].t].senders = Free
    /\ LET t == loc[p].t
       IN  /\ senders' = [senders EXCEPT ![t] = Append(@, <<loc[p].tok, loc[p].q>>)]
           /\ hist' = [hist EXCEPT ![loc[p].tok] = [since |-> Len(published[t]), got |-> <<>>]]
           /\ lock' = ReleaseAll(t, p)
    /\ Goto(p, "get_next")
    /\ UNCHANGED <<cfg, run, polled, alive, retained, senders_serialized, published, last_input, chan,
                   next_token, handles>>

\* GetNext taking the newest message of the queue
GetNextTakesNewest(p) ==
    /\ pc[p] = "get_next"
    /\ LET ch == chan[loc[p].q]
       IN  /\ ch.buf # <<>> \/ ch.closed
           /\ IF ch.buf # <<>>
              THEN /\ chan' = [chan EXCEPT ![loc[p].q].buf = <<>>]
                   /\ pc' = [pc EXCEPT ![p] = "get_unsubscribe"]
                   /\ loc' = [loc EXCEPT ![p].msg = Some(Last(ch.buf))]
              ELSE /\ pc' = [pc EXCEPT ![p] = "panicked"]
                   /\ UNCHANGED <<chan, loc>>
    /\ ret' = NoRet
    /\ UNCHANGED <<cfg, run, polled, alive, topicVars, lock, next_token, handles, budget, hist>>

\* get: rx.next().await.unwrap(): the head of the queue, or a panic when the
\* queue is empty and closed
GetNext(p) ==
    /\ pc[p] = "get_next"
    /\ LET ch == chan[loc[p].q]
       IN  /\ ch.buf # <<>> \/ ch.closed
           /\ IF ch.buf # <<>>
              THEN /\ chan' = [chan EXCEPT ![loc[p].q].buf = Tail(@)]
                   /\ pc' = [pc EXCEPT ![p] = "get_unsubscribe"]
                   /\ loc' = [loc EXCEPT ![p].msg = Some(Head(ch.buf))]
              ELSE /\ pc' = [pc EXCEPT ![p] = "panicked"]
                   /\ UNCHANGED <<chan, loc>>
    /\ ret' = NoRet
    /\ UNCHANGED <<cfg, run, polled, alive, topicVars, lock, next_token, handles, budget, hist>>

\* GetUnsubscribe without the call of unsubscribe: v is returned and rx is
\* dropped, the entry stays
GetUnsubscribeForgets(p) ==
    /\ pc[p] = "get_unsubscribe"
    /\ LET t == loc[p].t
       IN  /\ chan' = [chan EXCEPT ![loc[p].q] = DeadChan]
           /\ Return(p, [NoRet EXCEPT !.op = "get", !.t = t, !.val = loc[p].msg,
                                      !.from = loc[p].from, !.at = hist[loc[p].tok].since,
                                      !.waited = TRUE])
    /\ UNCHANGED <<cfg, run, polled, alive, topicVars, lock, next_token, handles, hist>>

\* get: handle.unsubscribe().await, then v is returned and rx is dropped
GetUnsubscribe(p) ==
    /\ pc[p] = "get_unsubscribe"
    /\ lock[loc[p].t].senders = Free
    /\ LET t == loc[p].t
       IN  /\ senders' = [senders EXCEPT ![t] = RemoveToken(@, loc[p].tok)]
           /\ chan' = [chan EXCEPT ![loc[p].q] = DeadChan]
           /\ hist' = Forget(hist, loc[p].tok)
           /\ Return(p, [NoRet EXCEPT !.op = "get", !.t = t, !.val = loc[p].msg,
                                      !.from = loc[p].from, !.at = hist[loc[p].tok].since,
                                      !.waited = TRUE])
    /\ UNCHANGED <<cfg, run, polled, alive, retained, senders_serialized, published, last_input, lock,
                   next_token, handles>>

\* ---------------------------------------------------------------- try_get_as_bytes
CallTryGetAsBytes(p, t) ==
    /\ Call(p, "try_get_retained", [IdleLoc EXCEPT !.op = "try_get_as_bytes", !.t = t,
                                                   !.from = Len(published[t])])
    /\ UNCHANGED <<cfg, run, polled, alive, topicVars, lock, chan, next_token, handles, hist>>

\* TryGetRetained that waits for a value as get does
TryGetRetainedWaits(p) ==
    /\ pc[p] = "try_get_retained"
    /\ lock[loc[p].t].retained = Free
    /\ IsSome(retained[loc[p].t])
    /\ LET t == loc[p].t
       IN  /\ retained' = [retained EXCEPT ![t] = Some(CacheFilled(Unwrap(@)))]
           /\ Return(p, [NoRet EXCEPT !.op = "try_get_as_bytes", !.t = t,
                                      !.out = Some(Serialized(Unwrap(retained[t]))),
                                      !.from = loc[p].from, !.at = Len(published[t])])
    /\ UNCHANGED <<cfg, run, polled, alive, senders, senders_serialized, published, last_input, lock, chan,
                   next_token, handles, hist>>

\* try_get_as_bytes: self.retained.lock().await.as_mut().map(|v| v.serialized())
TryGetRetained(p) ==
    /\ pc[p] = "try_get_retained"
    /\ lock[loc[p].t].retained = Free
    /\ LET t == loc[p].t
       IN  /\ retained' = [retained EXCEPT ![t] =
                              IF IsSome(@) THEN Some(CacheFilled(Unwrap(@))) ELSE None]
           /\ Return(p, [NoRet EXCEPT !.op = "try_get_as_bytes", !.t = t,
                                      !.out = IF IsSome(retained[t])
                                              THEN Some(Serialized(Unwrap(retained[t])))
                                              ELSE None,
                                      !.from = loc[p].from, !.at = Len(published[t])])
    /\ UNCHANGED <<cfg, run, polled, alive, senders, senders_serialized, published, last_input, lock, chan,
                   next_token, handles, hist>>

\* ---------------------------------------------------------------- consumers
\* the owner of a user channel takes the message at its head
Recv(q) ==
    /\ q \in UserChans
    /\ chan[q].rx
    /\ chan[q].buf # <<>>
    /\ chan' = [chan EXCEPT ![q].buf = Tail(@)]
    /\ ret' = NoRet
    /\ UNCHANGED <<cfg, run, polled, alive, topicVars, lock, next_token, handles, pc, loc, budget, hist>>

\* channel q is in a registry, or on its way into one
Subscribed(q) ==
    \/ \E t \in Topics : q \in ChansOf(senders[t]) \cup ChansOf(senders_serialized[t])
    \/ \E p \in Procs : pc[p] \in {"subscribe_senders", "subscribe_serialized"} /\ loc[p].q = q

\* the owner of a subscribed user channel drops its Receiver: the channel is
\* closed and what it held is gone
DropReceiver(q) ==
    /\ q \in UserChans
    /\ Subscribed(q)
    /\ chan[q].rx
    /\ chan' = [chan EXCEPT ![q] = [@ EXCEPT !.rx = FALSE, !.closed = TRUE, !.buf = <<>>]]
    /\ ret' = NoRet
    /\ UNCHANGED <<cfg, run, polled, alive, topicVars, lock, next_token, handles, pc, loc, budget, hist>>

\* the last Arc<Topic> of topic t is dropped while no call runs on it: the
\* retained value and the registries go, and with them the Senders they held
DropTopic(t) ==
    /\ alive[t]
    /\ \A p \in Procs : pc[p] = "idle" \/ loc[p].t # t
    /\ alive' = [alive EXCEPT ![t] = FALSE]
    /\ retained' = [retained EXCEPT ![t] = None]
    /\ senders' = [senders EXCEPT ![t] = <<>>]
    /\ senders_serialized' = [senders_serialized EXCEPT ![t] = <<>>]
    /\ chan' = [q \in Chans |->
                  IF /\ q \in ChansOf(senders[t]) \cup ChansOf(senders_serialized[t])
                     /\ ~HasSender(q, t, <<>>, <<>>)
                  THEN Close(chan[q]) ELSE chan[q]]
    /\ hist' = [k \in Tokens |->
                  IF k \in TokensOf(senders[t]) \cup TokensOf(senders_serialized[t])
                  THEN NoHist ELSE hist[k]]
    /\ ret' = NoRet
    /\ UNCHANGED <<cfg, run, polled, published, last_input, lock, next_token, handles, pc, loc, budget>>

\* ---------------------------------------------------------------- screensaver task
\* the task is spawned: buttons_task.subscribe_unbounded() is called, which
\* takes the Arc of the button topic: unbounded(), Unique::new()
TaskStart(p) ==
    /\ pc[p] = "task_start"
    /\ alive[Buttons]
    /\ chan' = [chan EXCEPT ![TaskChan] = NewChan(None)]
    /\ next_token' = next_token + 1
    /\ pc' = [pc EXCEPT ![p] = "task_subscribe"]
    /\ loc' = [loc EXCEPT ![p] = [TaskLoc EXCEPT !.t = Buttons, !.tok = next_token]]
    /\ ret' = NoRet
    /\ UNCHANGED <<cfg, run, polled, alive, topicVars, lock, handles, budget, hist>>

\* subscribe: self.senders.lock().await.push(..); the Arc of the button
\* topic is dropped with the end of subscribe and the handle with the `_`
\* of the pattern
TaskSubscribe(p) ==
    /\ pc[p] = "task_subscribe"
    /\ lock[Buttons].senders = Free
    /\ senders' = [senders EXCEPT ![Buttons] = Append(@, <<loc[p].tok, TaskChan>>)]
    /\ hist' = [hist EXCEPT ![loc[p].tok] = [since |-> Len(published[Buttons]), got |-> <<>>]]
    /\ pc' = [pc EXCEPT ![p] = "task_wait"]
    /\ loc' = [loc EXCEPT ![p] = TaskLoc]
    /\ ret' = NoRet
    /\ UNCHANGED <<cfg, run, polled, alive, retained, senders_serialized, published, last_input, lock, chan,
                   next_token, handles, budget>>

\* timeout(SCREENSAVER_TIMEOUT, buttons_events.next()) is ready with the
\* result of next(): Ok(Some(_)) is an event and the loop goes on, Ok(None)
\* is the end of the stream and the loop is left
TaskNext(p) ==
    /\ pc[p] = "task_wait"
    /\ LET ch == chan[TaskChan]
       IN  /\ ch.buf # <<>> \/ ch.closed
           /\ IF ch.buf # <<>>
              THEN /\ chan' = [chan EXCEPT ![TaskChan].buf = Tail(@)]
                   /\ UNCHANGED <<pc, loc>>
              ELSE /\ chan' = [chan EXCEPT ![TaskChan] = DeadChan]
                   /\ pc' = [pc EXCEPT ![p] = "task_ended"]
                   /\ loc' = [loc EXCEPT ![p] = IdleLoc]
    /\ ret' = NoRet
    /\ UNCHANGED <<cfg, run, polled, alive, topicVars, lock, next_token, handles, budget, hist>>

\* TaskTimeout that lets the timer win over an event in the queue
TaskTimeoutOverEvent(p) ==
    /\ pc[p] = "task_wait"
    /\ ~chan[TaskChan].closed
    /\ pc' = [pc EXCEPT ![p] = "modify_retained"]
    /\ loc' = [loc EXCEPT ![p] = [TaskLoc EXCEPT !.op = "modify", !.cb = "screensaver",
                                                 !.from = Len(published[Screen])]]
    /\ ret' = NoRet
    /\ UNCHANGED <<cfg, run, polled, alive, topicVars, lock, chan, next_token, handles, budget, hist>>

\* the timeout is over while next() is pending, Err(_): screen_task.modify
\* is called with the closure of the screensaver
TaskTimeout(p) ==
    /\ pc[p] = "task_wait"
    /\ chan[TaskChan].buf = <<>>
    /\ ~chan[TaskChan].closed
    /\ pc' = [pc EXCEPT ![p] = "modify_retained"]
    /\ loc' = [loc EXCEPT ![p] = [TaskLoc EXCEPT !.op = "modify", !.cb = "screensaver",
                                                 !.from = Len(published[Screen])]]
    /\ ret' = NoRet
    /\ UNCHANGED <<cfg, run, polled, alive, topicVars, lock, chan, next_token, handles, budget, hist>>

\* ---------------------------------------------------------------- polling thread
\* the outcome of HwMon::new(..).unwrap().temp(1).unwrap().input().unwrap()
\* when one of the three is an Err
Panic == MaxVal + 1

\* while run_thread.load(Ordering::Relaxed): the next iteration begins, or
\* the closure returns
ThreadLoad(p) ==
    /\ pc[p] = "thread_load"
    /\ IF run
       THEN /\ budget > 0
            /\ budget' = budget - 1
            /\ pc' = [pc EXCEPT ![p] = "thread_read"]
            /\ polled' = [polled EXCEPT !.iterations = @ + 1]
            /\ UNCHANGED loc
       ELSE /\ pc' = [pc EXCEPT ![p] = "thread_ended"]
            /\ loc' = [loc EXCEPT ![p] = IdleLoc]
            /\ UNCHANGED <<budget, polled>>
    /\ ret' = NoRet
    /\ UNCHANGED <<cfg, alive, topicVars, lock, chan, next_token, handles, hist, run>>

\* the temperature is read and block_on(soc_temperature_thread.set(meas))
\* is called, or one of the unwraps panics
ThreadRead(p, val) ==
    /\ pc[p] = "thread_read"
    /\ IF val = Panic
       THEN /\ pc' = [pc EXCEPT ![p] = "thread_panicked"]
            /\ loc' = [loc EXCEPT ![p] = IdleLoc]
       ELSE /\ pc' = [pc EXCEPT ![p] = "set_retained"]
            /\ loc' = [loc EXCEPT ![p] = [ThreadLoc EXCEPT !.op = "set", !.msg = Some(val),
                                                          !.from = Len(published[Soc])]]
    /\ ret' = NoRet
    /\ UNCHANGED <<cfg, run, polled, alive, topicVars, lock, chan, next_token, handles,
                   budget, hist>>

\* sleep(UPDATE_INTERVAL)
ThreadSleep(p) ==
    /\ pc[p] = "thread_sleep"
    /\ pc' = [pc EXCEPT ![p] = "thread_load"]
    /\ ret' = NoRet
    /\ UNCHANGED <<cfg, run, polled, alive, topicVars, lock, chan, next_token, handles,
                   loc, budget, hist>>

\* DropTemperatures without the store
DropTemperaturesKeepsRunning ==
    /\ ~polled.dropped
    /\ polled' = [polled EXCEPT !.dropped = TRUE, !.at_drop = Len(published[Soc])]
    /\ ret' = NoRet
    /\ UNCHANGED <<cfg, run, alive, topicVars, lock, chan, next_token, handles, pc, loc,
                   budget, hist>>

\* Drop for Temperatures: self.run.take().unwrap().store(false, Relaxed)
DropTemperatures ==
    /\ ~polled.dropped
    /\ run' = FALSE
    /\ polled' = [polled EXCEPT !.dropped = TRUE, !.at_drop = Len(published[Soc])]
    /\ ret' = NoRet
    /\ UNCHANGED <<cfg, alive, topicVars, lock, chan, next_token, handles, pc, loc,
                   budget, hist>>

\* ---------------------------------------------------------------- specification
Next ==
    \/ \E p \in Procs, t \in cfg.topics, v \in cfg.vals : CallSet(p, t, v)
    \/ \E p \in Procs : SetRetained(p)
    \/ \E p \in Procs : SetSenders(p)
    \/ \E p \in Procs : SetSerialized(p)
    \/ \E p \in Procs, t \in cfg.topics, b \in cfg.inputs : CallSetFromBytes(p, t, b)
    \/ \E p \in Procs, t \in cfg.topics, cb \in cfg.cbs : CallModify(p, t, cb)
    \/ \E p \in Procs : ModifyRetained(p)
    \/ \E p \in Procs, t \in cfg.topics : CallGet(p, t)
    \/ \E p \in Procs : GetRetained(p)
    \/ \E p \in Procs : GetSubscribe(p)
    \/ \E p \in Procs : GetNext(p)
    \/ \E p \in Procs : GetUnsubscribe(p)
    \/ \E p \in Procs, t \in cfg.topics : CallTryGetAsBytes(p, t)
    \/ \E p \in Procs : TryGetRetained(p)
    \/ \E p \in Procs, t \in cfg.topics, q \in NativeChans : CallSubscribe(p, t, q)
    \/ \E p \in Procs : SubscribeSenders(p)
    \/ \E p \in Procs, t \in cfg.topics, q \in SerializedChans : CallSubscribeAsBytes(p, t, q)
    \/ \E p \in Procs : SubscribeSerialized(p)
    \/ \E p \in Procs, h \in handles : CallUnsubscribe(p, h)
    \/ \E p \in Procs : UnsubscribeSenders(p)
    \/ \E p \in Procs, h \in handles : CallUnsubscribeSerialized(p, h)
    \/ \E p \in Procs : UnsubscribeSerialized(p)
    \/ \E q \in UserChans : Recv(q)
    \/ \E q \in UserChans : DropReceiver(q)

Spec == Init /\ [][Next]_vars

\* publishers and subscribers whose queues nobody drains, one call more
InitUndrained == InitFor(AllCallers, MaxCalls + 1, {})

NextUndrained ==
    \/ \E p \in Procs, t \in cfg.topics, v \in cfg.vals : CallSet(p, t, v)
    \/ \E p \in Procs : SetRetained(p)
    \/ \E p \in Procs : SetSenders(p)
    \/ \E p \in Procs : SetSerialized(p)
    \/ \E p \in Procs, t \in cfg.topics, q \in NativeChans : CallSubscribe(p, t, q)
    \/ \E p \in Procs : SubscribeSenders(p)
    \/ \E p \in Procs, t \in cfg.topics, q \in SerializedChans : CallSubscribeAsBytes(p, t, q)
    \/ \E p \in Procs : SubscribeSerialized(p)
    \/ \E p \in Procs, h \in handles : CallUnsubscribe(p, h)
    \/ \E p \in Procs : UnsubscribeSenders(p)
    \/ \E p \in Procs, h \in handles : CallUnsubscribeSerialized(p, h)
    \/ \E p \in Procs : UnsubscribeSerialized(p)

SpecUndrained == InitUndrained /\ [][NextUndrained]_vars

\* getters and publishers of native values; a call that can take its next
\* step is polled again at some time
NextGet ==
    \/ \E p \in Procs, t \in cfg.topics, v \in cfg.vals : CallSet(p, t, v)
    \/ \E p \in Procs : SetRetained(p)
    \/ \E p \in Procs : SetSenders(p)
    \/ \E p \in Procs : SetSerialized(p)
    \/ \E p \in Procs, t \in cfg.topics, cb \in cfg.cbs : CallModify(p, t, cb)
    \/ \E p \in Procs : ModifyRetained(p)
    \/ \E p \in Procs, t \in cfg.topics : CallGet(p, t)
    \/ \E p \in Procs : GetRetained(p)
    \/ \E p \in Procs : GetSubscribe(p)
    \/ \E p \in Procs : GetNext(p)
    \/ \E p \in Procs : GetUnsubscribe(p)

Poll(p) ==
    \/ SetRetained(p) \/ SetSenders(p) \/ SetSerialized(p) \/ ModifyRetained(p)
    \/ GetRetained(p) \/ GetSubscribe(p) \/ GetNext(p) \/ GetUnsubscribe(p)

FairSpecGet == Init /\ [][NextGet]_vars /\ \A p \in Procs : WF_vars(Poll(p))

\* a topic built with the initial value 0, written either by guard
\* transforms alone or by every kind of writer, and a native subscriber
GuardCallers == [topics |-> {1}, vals |-> {}, cbs |-> {"guard"}, inputs |-> {}]

InitModify ==
    \E c \in {GuardCallers, AllCallers} : InitFor(c, MaxCalls, {1})

NextModify ==
    \/ \E p \in Procs, t \in cfg.topics, v \in cfg.vals : CallSet(p, t, v)
    \/ \E p \in Procs : SetRetained(p)
    \/ \E p \in Procs : SetSenders(p)
    \/ \E p \in Procs : SetSerialized(p)
    \/ \E p \in Procs, t \in cfg.topics, cb \in cfg.cbs : CallModify(p, t, cb)
    \/ \E p \in Procs : ModifyRetained(p)
    \/ \E p \in Procs, t \in cfg.topics, q \in NativeChans : CallSubscribe(p, t, q)
    \/ \E p \in Procs : SubscribeSenders(p)
    \/ \E q \in UserChans : Recv(q)

SpecModify == InitModify /\ [][NextModify]_vars

\* the callers of the type-erased interface, with more byte strings, and a
\* native publisher and subscriber next to them
ByteCallers == [topics |-> {1}, vals |-> Vals, cbs |-> {}, inputs |-> WideInputBytes]

InitBytes == InitFor(ByteCallers, MaxCalls, {})

NextBytes ==
    \/ \E p \in Procs, t \in cfg.topics, b \in cfg.inputs : CallSetFromBytes(p, t, b)
    \/ \E p \in Procs, t \in cfg.topics, v \in cfg.vals : CallSet(p, t, v)
    \/ \E p \in Procs : SetRetained(p)
    \/ \E p \in Procs : SetSenders(p)
    \/ \E p \in Procs : SetSerialized(p)
    \/ \E p \in Procs, t \in cfg.topics : CallTryGetAsBytes(p, t)
    \/ \E p \in Procs : TryGetRetained(p)
    \/ \E p \in Procs, t \in cfg.topics, q \in NativeChans : CallSubscribe(p, t, q)
    \/ \E p \in Procs : SubscribeSenders(p)
    \/ \E p \in Procs, t \in cfg.topics, q \in SerializedChans : CallSubscribeAsBytes(p, t, q)
    \/ \E p \in Procs : SubscribeSerialized(p)
    \/ \E q \in UserChans : Recv(q)

SpecBytes == InitBytes /\ [][NextBytes]_vars

\* holders of handles: subscribers whose receiver may be dropped, whose
\* queue may fill up, and whose topic may be dropped, one call more
HandleCallers == [topics |-> {1}, vals |-> {0}, cbs |-> {}, inputs |-> {}]

InitStale == InitFor(HandleCallers, MaxCalls + 1, {})

NextStale ==
    \/ \E p \in Procs, t \in cfg.topics, v \in cfg.vals : CallSet(p, t, v)
    \/ \E p \in Procs : SetRetained(p)
    \/ \E p \in Procs : SetSenders(p)
    \/ \E p \in Procs : SetSerialized(p)
    \/ \E p \in Procs, t \in cfg.topics, q \in NativeChans : CallSubscribe(p, t, q)
    \/ \E p \in Procs : SubscribeSenders(p)
    \/ \E p \in Procs, t \in cfg.topics, q \in SerializedChans : CallSubscribeAsBytes(p, t, q)
    \/ \E p \in Procs : SubscribeSerialized(p)
    \/ \E p \in Procs, h \in handles : CallUnsubscribe(p, h)
    \/ \E p \in Procs : UnsubscribeSenders(p)
    \/ \E p \in Procs, h \in handles : CallUnsubscribeSerialized(p, h)
    \/ \E p \in Procs : UnsubscribeSerialized(p)
    \/ \E q \in UserChans : DropReceiver(q)
    \/ \E t \in cfg.topics : DropTopic(t)

SpecStale == InitStale /\ [][NextStale]_vars

\* publishers and subscribers of the three kinds that come late; nobody
\* drains a queue
InitLate == InitFor(AllCallers, MaxCalls, {})

NextLate ==
    \/ \E p \in Procs, t \in cfg.topics, v \in cfg.vals : CallSet(p, t, v)
    \/ \E p \in Procs : SetRetained(p)
    \/ \E p \in Procs : SetSenders(p)
    \/ \E p \in Procs : SetSerialized(p)
    \/ \E p \in Procs, t \in cfg.topics, cb \in cfg.cbs : CallModify(p, t, cb)
    \/ \E p \in Procs : ModifyRetained(p)
    \/ \E p \in Procs, t \in cfg.topics, q \in NativeChans : CallSubscribe(p, t, q)
    \/ \E p \in Procs, t \in cfg.topics, q \in UnboundedChans : CallSubscribeUnbounded(p, t, q)
    \/ \E p \in Procs : SubscribeSenders(p)
    \/ \E p \in Procs, t \in cfg.topics, q \in SerializedChans : CallSubscribeAsBytes(p, t, q)
    \/ \E p \in Procs : SubscribeSerialized(p)

SpecLate == InitLate /\ [][NextLate]_vars

\* publishers and subscribers with queues of their own: a bounded native
\* one, an unbounded native one and a serialized one, which may fill up or
\* lose their receiver; one call more
InitFanOut == InitFor(HandleCallers, MaxCalls + 1, {})

NextFanOut ==
    \/ \E p \in Procs, t \in cfg.topics, v \in cfg.vals : CallSet(p, t, v)
    \/ \E p \in Procs : SetRetained(p)
    \/ \E p \in Procs : SetSenders(p)
    \/ \E p \in Procs : SetSerialized(p)
    \/ \E p \in Procs, t \in cfg.topics, q \in NativeChans : CallSubscribe(p, t, q)
    \/ \E p \in Procs, t \in cfg.topics, q \in UnboundedChans : CallSubscribeUnbounded(p, t, q)
    \/ \E p \in Procs : SubscribeSenders(p)
    \/ \E p \in Procs, t \in cfg.topics, q \in SerializedChans : CallSubscribeAsBytes(p, t, q)
    \/ \E p \in Procs : SubscribeSerialized(p)
    \/ \E q \in UserChans : DropReceiver(q)

SpecFanOut == InitFanOut /\ [][NextFanOut]_vars

\* publishers of the three kinds and subscribers that never drain their
\* queue; a call that can take its next step is polled again at some time
PublishCallers == [topics |-> {1}, vals |-> {0}, cbs |-> {"incr"}, inputs |-> {Encode(0)}]

InitPublish == InitFor(PublishCallers, MaxCalls, {})

NextPublish ==
    \/ \E p \in Procs, t \in cfg.topics, v \in cfg.vals : CallSet(p, t, v)
    \/ \E p \in Procs, t \in cfg.topics, b \in cfg.inputs : CallSetFromBytes(p, t, b)
    \/ \E p \in Procs, t \in cfg.topics, cb \in cfg.cbs : CallModify(p, t, cb)
    \/ \E p \in Procs : SetRetained(p)
    \/ \E p \in Procs : ModifyRetained(p)
    \/ \E p \in Procs : SetSenders(p)
    \/ \E p \in Procs : SetSerialized(p)
    \/ \E p \in Procs, t \in cfg.topics, q \in NativeChans : CallSubscribe(p, t, q)
    \/ \E p \in Procs : SubscribeSenders(p)
    \/ \E p \in Procs, t \in cfg.topics, q \in SerializedChans : CallSubscribeAsBytes(p, t, q)
    \/ \E p \in Procs : SubscribeSerialized(p)

PollPublish(p) ==
    \/ SetRetained(p) \/ ModifyRetained(p) \/ SetSenders(p) \/ SetSerialized(p)
    \/ SubscribeSenders(p) \/ SubscribeSerialized(p)

FairSpecPublish ==
    InitPublish /\ [][NextPublish]_vars /\ \A p \in Procs : WF_vars(PollPublish(p))

\* readers of both kinds and a publisher, on a topic built with or without
\* an initial value; a call that can take its next step is polled again at
\* some time
ReadCallers == [topics |-> {1}, vals |-> Vals, cbs |-> {}, inputs |-> {}]

InitTryGet == \E init \in {{}, {1}} : InitFor(ReadCallers, MaxCalls, init)

NextTryGet ==
    \/ \E p \in Procs, t \in cfg.topics, v \in cfg.vals : CallSet(p, t, v)
    \/ \E p \in Procs : SetRetained(p)
    \/ \E p \in Procs : SetSenders(p)
    \/ \E p \in Procs : SetSerialized(p)
    \/ \E p \in Procs, t \in cfg.topics : CallGet(p, t)
    \/ \E p \in Procs : GetRetained(p)
    \/ \E p \in Procs : GetSubscribe(p)
    \/ \E p \in Procs : GetNext(p)
    \/ \E p \in Procs : GetUnsubscribe(p)
    \/ \E p \in Procs, t \in cfg.topics : CallTryGetAsBytes(p, t)
    \/ \E p \in Procs : TryGetRetained(p)

PollTryGet(p) ==
    \/ SetRetained(p) \/ SetSenders(p) \/ SetSerialized(p)
    \/ GetRetained(p) \/ GetSubscribe(p) \/ GetNext(p) \/ GetUnsubscribe(p)
    \/ TryGetRetained(p)

FairSpecTryGet ==
    InitTryGet /\ [][NextTryGet]_vars /\ \A p \in Procs : WF_vars(PollTryGet(p))

\* callers of several topics, with one queue subscribed to any of them, one
\* call more
TopicsCallers == [topics |-> Topics, vals |-> {1}, cbs |-> {"incr"}, inputs |-> {}]

InitTopics == InitFor(TopicsCallers, MaxCalls + 1, {})

NextTopics ==
    \/ \E p \in Procs, t \in cfg.topics, v \in cfg.vals : CallSet(p, t, v)
    \/ \E p \in Procs : SetRetained(p)
    \/ \E p \in Procs : SetSenders(p)
    \/ \E p \in Procs : SetSerialized(p)
    \/ \E p \in Procs, t \in cfg.topics, cb \in cfg.cbs : CallModify(p, t, cb)
    \/ \E p \in Procs : ModifyRetained(p)
    \/ \E p \in Procs, t \in cfg.topics, q \in NativeChans : CallSubscribe(p, t, q)
    \/ \E p \in Procs : SubscribeSenders(p)
    \/ \E p \in Procs, h \in handles : CallUnsubscribe(p, h)
    \/ \E p \in Procs : UnsubscribeSenders(p)

PollTopics(p) ==
    \/ SetRetained(p) \/ SetSenders(p) \/ SetSerialized(p) \/ ModifyRetained(p)
    \/ SubscribeSenders(p) \/ UnsubscribeSenders(p)

SpecTopics == InitTopics /\ [][NextTopics]_vars

\* subscribers of several topics with one queue, whose receiver may be
\* dropped and is never read: two calls more
ClosedCallers == [topics |-> Topics, vals |-> {1}, cbs |-> {}, inputs |-> {}]

InitClosed == InitFor(ClosedCallers, MaxCalls + 2, {})

NextClosed ==
    \/ \E p \in Procs, t \in cfg.topics, v \in cfg.vals : CallSet(p, t, v)
    \/ \E p \in Procs : SetRetained(p)
    \/ \E p \in Procs : SetSenders(p)
    \/ \E p \in Procs : SetSerialized(p)
    \/ \E p \in Procs, t \in cfg.topics, q \in NativeChans : CallSubscribe(p, t, q)
    \/ \E p \in Procs : SubscribeSenders(p)
    \/ \E q \in NativeChans : DropReceiver(q)

SpecClosed == InitClosed /\ [][NextClosed]_vars

\* publishers next to subscribers of the three kinds that unsubscribe, and
\* a receiver, one call more
InitUnsub == InitFor(HandleCallers, MaxCalls + 1, {})

NextUnsub ==
    \/ \E p \in Procs, t \in cfg.topics, v \in cfg.vals : CallSet(p, t, v)
    \/ \E p \in Procs : SetRetained(p)
    \/ \E p \in Procs : SetSenders(p)
    \/ \E p \in Procs : SetSerialized(p)
    \/ \E p \in Procs, t \in cfg.topics, q \in NativeChans : CallSubscribe(p, t, q)
    \/ \E p \in Procs, t \in cfg.topics, q \in UnboundedChans : CallSubscribeUnbounded(p, t, q)
    \/ \E p \in Procs : SubscribeSenders(p)
    \/ \E p \in Procs, t \in cfg.topics, q \in SerializedChans : CallSubscribeAsBytes(p, t, q)
    \/ \E p \in Procs : SubscribeSerialized(p)
    \/ \E p \in Procs, h \in handles : CallUnsubscribe(p, h)
    \/ \E p \in Procs : UnsubscribeSenders(p)
    \/ \E p \in Procs, h \in handles : CallUnsubscribeSerialized(p, h)
    \/ \E p \in Procs : UnsubscribeSerialized(p)
    \/ \E q \in UserChans : Recv(q)

SpecUnsub == InitUnsub /\ [][NextUnsub]_vars

\* publishers of every kind and readers of both kinds, on a topic built
\* with or without an initial value
InitRetained == \E init \in {{}, {1}} : InitFor(AllCallers, MaxCalls, init)

NextRetained ==
    \/ \E p \in Procs, t \in cfg.topics, v \in cfg.vals : CallSet(p, t, v)
    \/ \E p \in Procs : SetRetained(p)
    \/ \E p \in Procs : SetSenders(p)
    \/ \E p \in Procs : SetSerialized(p)
    \/ \E p \in Procs, t \in cfg.topics, b \in cfg.inputs : CallSetFromBytes(p, t, b)
    \/ \E p \in Procs, t \in cfg.topics, cb \in cfg.cbs : CallModify(p, t, cb)
    \/ \E p \in Procs : ModifyRetained(p)
    \/ \E p \in Procs, t \in cfg.topics : CallGet(p, t)
    \/ \E p \in Procs : GetRetained(p)
    \/ \E p \in Procs : GetSubscribe(p)
    \/ \E p \in Procs : GetNext(p)
    \/ \E p \in Procs : GetUnsubscribe(p)
    \/ \E p \in Procs, t \in cfg.topics : CallTryGetAsBytes(p, t)
    \/ \E p \in Procs : TryGetRetained(p)

SpecRetained == InitRetained /\ [][NextRetained]_vars

\* the screensaver task, which is the last process, next to callers that
\* set the button topic and the screen topic, and the owner of the button
\* topic, who may drop it
ScreenCallers == [topics |-> {Buttons, Screen}, vals |-> Vals, cbs |-> {}, inputs |-> {}]

InitScreen ==
    /\ cfg = ScreenCallers
    /\ run = TRUE
    /\ polled = NoPolls
    /\ alive = [t \in Topics |-> TRUE]
    /\ budget = MaxCalls
    /\ retained = [t \in Topics |-> None]
    /\ senders = [t \in Topics |-> <<>>]
    /\ senders_serialized = [t \in Topics |-> <<>>]
    /\ lock = [t \in Topics |-> [retained |-> Free, senders |-> Free, senders_serialized |-> Free]]
    /\ chan = [q \in Chans |-> IF q \in UserChans THEN NewChan(Some(Capacity)) ELSE DeadChan]
    /\ next_token = 1
    /\ handles = {}
    /\ pc = [p \in Procs |-> IF p = NumProcs THEN "task_start" ELSE "idle"]
    /\ loc = [p \in Procs |-> IF p = NumProcs THEN [TaskLoc EXCEPT !.t = Buttons] ELSE IdleLoc]
    /\ ret = NoRet
    /\ published = [t \in Topics |-> <<>>]
    /\ last_input = [t \in Topics |-> None]
    /\ hist = [k \in Tokens |-> NoHist]

NextScreen ==
    \/ \E p \in Procs : TaskStart(p)
    \/ \E p \in Procs : TaskSubscribe(p)
    \/ \E p \in Procs : TaskNext(p)
    \/ \E p \in Procs : TaskTimeout(p)
    \/ \E p \in Procs : ModifyRetained(p)
    \/ \E p \in Procs, t \in cfg.topics, v \in cfg.vals : CallSet(p, t, v)
    \/ \E p \in Procs : SetRetained(p)
    \/ \E p \in Procs : SetSenders(p)
    \/ \E p \in Procs : SetSerialized(p)
    \/ DropTopic(Buttons)

SpecScreen == InitScreen /\ [][NextScreen]_vars

\* the polling thread of Temperatures::new, which is the last process, next
\* to subscribers of soc_temperature and the owner of the Temperatures
\* object, who may drop it
TemperatureCallers == [topics |-> {Soc}, vals |-> Vals, cbs |-> {}, inputs |-> {}]

InitTemperatures ==
    /\ cfg = TemperatureCallers
    /\ run = TRUE
    /\ polled = NoPolls
    /\ alive = [t \in Topics |-> TRUE]
    /\ budget = MaxCalls
    /\ retained = [t \in Topics |-> None]
    /\ senders = [t \in Topics |-> <<>>]
    /\ senders_serialized = [t \in Topics |-> <<>>]
    /\ lock = [t \in Topics |-> [retained |-> Free, senders |-> Free, senders_serialized |-> Free]]
    /\ chan = [q \in Chans |-> IF q \in UserChans THEN NewChan(Some(Capacity)) ELSE DeadChan]
    /\ next_token = 1
    /\ handles = {}
    /\ pc = [p \in Procs |-> IF p = NumProcs THEN "thread_load" ELSE "idle"]
    /\ loc = [p \in Procs |-> IF p = NumProcs THEN ThreadLoc ELSE IdleLoc]
    /\ ret = NoRet
    /\ published = [t \in Topics |-> <<>>]
    /\ last_input = [t \in Topics |-> None]
    /\ hist = [k \in Tokens |-> NoHist]

\* the steps of the thread, which its executor takes in the end
ThreadProgress ==
    \/ \E p \in Procs : ThreadLoad(p)
    \/ \E p \in Procs, val \in Vals \cup {Panic} : ThreadRead(p, val)
    \/ \E p \in Procs : SetRetained(p)
    \/ \E p \in Procs : SetSenders(p)
    \/ \E p \in Procs : SetSerialized(p)
    \/ \E p \in Procs : ThreadSleep(p)

NextTemperatures ==
    \/ \E p \in Procs : ThreadLoad(p)
    \/ \E p \in Procs, val \in Vals \cup {Panic} : ThreadRead(p, val)
    \/ \E p \in Procs : SetRetained(p)
    \/ \E p \in Procs : SetSenders(p)
    \/ \E p \in Procs : SetSerialized(p)
    \/ \E p \in Procs : ThreadSleep(p)
    \/ DropTemperatures
    \/ \E p \in Procs, t \in cfg.topics, q \in NativeChans : CallSubscribe(p, t, q)
    \/ \E p \in Procs : SubscribeSenders(p)
    \/ \E p \in Procs, t \in cfg.topics : CallTryGetAsBytes(p, t)
    \/ \E p \in Procs : TryGetRetained(p)
    \/ \E q \in NativeChans : Recv(q)

SpecTemperatures == InitTemperatures /\ [][NextTemperatures]_vars

FairSpecTemperatures == SpecTemperatures /\ WF_vars(ThreadProgress)

\* publishers whose fan-out and assignment are two steps, readers,
\* subscribers and a receiver that takes values from its queue
InitAtomic == InitFor(AllCallers, MaxCalls, {})

NextAtomic ==
    \/ \E p \in Procs, t \in cfg.topics, v \in cfg.vals : CallSet(p, t, v)
    \/ \E p \in Procs, t \in cfg.topics, cb \in cfg.cbs : CallModify(p, t, cb)
    \/ \E p \in Procs : SetRetained(p)
    \/ \E p \in Procs : ModifyRetained(p)
    \/ \E p \in Procs : SetSenders(p)
    \/ \E p \in Procs : SetFanOut(p)
    \/ \E p \in Procs : SetAssign(p)
    \/ \E p \in Procs, t \in cfg.topics : CallGet(p, t)
    \/ \E p \in Procs : GetRetained(p)
    \/ \E p \in Procs : GetSubscribe(p)
    \/ \E p \in Procs : GetNext(p)
    \/ \E p \in Procs : GetUnsubscribe(p)
    \/ \E p \in Procs, t \in cfg.topics : CallTryGetAsBytes(p, t)
    \/ \E p \in Procs : TryGetRetained(p)
    \/ \E p \in Procs, t \in cfg.topics, q \in NativeChans : CallSubscribe(p, t, q)
    \/ \E p \in Procs : SubscribeSenders(p)
    \/ \E p \in Procs, h \in handles : CallUnsubscribe(p, h)
    \/ \E p \in Procs : UnsubscribeSenders(p)
    \/ \E p \in Procs, t \in cfg.topics, q \in SerializedChans : CallSubscribeAsBytes(p, t, q)
    \/ \E p \in Procs : SubscribeSerialized(p)
    \/ \E q \in UserChans : Recv(q)

SpecAtomic == InitAtomic /\ [][NextAtomic]_vars

\* ---------------------------------------------------------------- types
TypeOK ==
    /\ budget \in 0..(MaxCalls + 2)
    /\ next_token \in 1..(MaxCalls + 3)
    /\ \A p \in Procs : pc[p] # "panicked"

\* ---------------------------------------------------------------- C1
\* C1: a get or try_get_as_bytes that was called after a publish on its topic
\* had completed returns the value (the encoding of the value) of the publish
\* that is the latest when it returns, never an older one.
C1_ReadsReturnLatestPublish ==
    (ret.op \in {"get", "try_get_as_bytes"} /\ ret.from >= 1) =>
        /\ ret.at >= ret.from
        /\ ret.at = Len(published[ret.t])
        /\ ret.op = "get" => ret.val = Some(Last(published[ret.t]))
        /\ ret.op = "try_get_as_bytes" => ret.out = Some(Encode(Last(published[ret.t])))

\* a get called after one publish returns the different value of a later one
C1_Witness ==
    /\ ret.op = "get"
    /\ ret.from >= 1
    /\ Len(published[ret.t]) > ret.from
    /\ ret.val # Some(published[ret.t][ret.from])

\* ---------------------------------------------------------------- C2
\* the values published on topic t since `since` publishes
PublishedSince(t, since) == SubSeq(published[t], since + 1, Len(published[t]))

\* the messages of a serialized subscriber for a sequence of values
AsMessages(t, vs) == [i \in 1..Len(vs) |-> <<Path(t), Encode(vs[i])>>]

\* C2: for every entry of a registry, native or serialized, the messages
\* enqueued through it since its registration are exactly the values
\* published since then, once each and in the order of the publishes.
C2_RegisteredSubscriberGetsAll ==
    \A t \in Topics :
        /\ \A i \in 1..Len(senders[t]) :
              LET h == hist[senders[t][i][1]]
              IN  h.got = PublishedSince(t, h.since)
        /\ \A i \in 1..Len(senders_serialized[t]) :
              LET h == hist[senders_serialized[t][i][1]]
              IN  h.got = AsMessages(t, PublishedSince(t, h.since))

\* a subscriber has two different values from two producers: the publish
\* that returns second was called before the first one had completed
C2_Witness ==
    /\ ret.op = "set"
    /\ ret.from = 0
    /\ ret.at = 2
    /\ \E i \in 1..Len(senders[ret.t]) :
          LET h == hist[senders[ret.t][i][1]]
          IN  h.since = 0 /\ Len(h.got) = 2 /\ h.got[1] # h.got[2]

\* ---------------------------------------------------------------- C3
Prefix(s, n) == SubSeq(s, 1, n)

\* the only subscription made so far, as long as unsubscribe was not called
\* on its handle: with n publishes since the registration and capacity C,
\* n <= C leaves it registered with the n messages in its open queue, and
\* n > C leaves it removed, with the first C messages in its closed queue
C3_KeptUntilFull ==
    \A h \in handles :
        (next_token = 2 /\ ~h.used) =>
            LET n == Len(published[h.t]) - h.since
                C == Unwrap(chan[h.q].cap)
                vs == PublishedSince(h.t, h.since)
                msgs == IF h.kind = "native" THEN vs ELSE AsMessages(h.t, vs)
                reg == IF h.kind = "native" THEN senders[h.t] ELSE senders_serialized[h.t]
            IN  IF n <= C
                THEN /\ h.token \in TokensOf(reg)
                     /\ ~chan[h.q].closed
                     /\ chan[h.q].buf = msgs
                ELSE /\ h.token \notin TokensOf(reg)
                     /\ chan[h.q].closed
                     /\ chan[h.q].buf = Prefix(msgs, C)

\* an unsubscribe whose token is in no registry changes nothing
C3_StaleUnsubscribeIsNoOp ==
    \A p \in Procs :
        (/\ pc[p] \in {"unsubscribe_senders", "unsubscribe_serialized"}
         /\ pc'[p] = "idle"
         /\ loc[p].tok \notin TokensOf(senders[loc[p].t])
                                \cup TokensOf(senders_serialized[loc[p].t]))
        => UNCHANGED <<retained, senders, senders_serialized, chan, published>>

\* C3: an undrained subscriber with a queue of capacity C stays registered
\* for the first C publishes; the publish after them closes its queue and
\* removes its entry without enqueuing, the queue keeps the first C values,
\* and a later unsubscribe on its handle changes nothing.
C3_EvictedAfterCapacity == []C3_KeptUntilFull /\ [][C3_StaleUnsubscribeIsNoOp]_vars

\* the subscriber was evicted by the publish after Capacity publishes and
\* unsubscribe on its handle has returned without finding the entry
C3_Witness ==
    /\ ret.op = "unsubscribe"
    /\ ~ret.ok
    /\ next_token = 2
    /\ Len(published[ret.t]) = Capacity + 1
    /\ chan[1].closed
    /\ Len(chan[1].buf) = Capacity

\* ---------------------------------------------------------------- C4
\* the claim as made: a get called on a topic that was never set returns the
\* value of the first publish, a get called later returns the latest value
\* without waiting
C4_FirstPublishAfterCall ==
    ret.op = "get" =>
        IF ret.from = 0
        THEN Len(published[ret.t]) >= 1 /\ ret.val = Some(published[ret.t][1])
        ELSE ~ret.waited /\ ret.val = Some(Last(published[ret.t]))

\* C4: a get that finds the topic empty when it has the lock of the retained
\* value does not return before a publish and returns the value of the first
\* publish, whatever was published since; a get that finds a value when it
\* has the lock returns the latest value without waiting.
C4_FirstPublishAfterLock ==
    ret.op = "get" =>
        /\ Len(published[ret.t]) >= 1
        /\ IF ret.waited
           THEN ret.at = 0 /\ ret.val = Some(published[ret.t][1])
           ELSE ret.at >= 1 /\ ret.val = Some(Last(published[ret.t]))

\* a get that waited returns the first of two different published values
C4_Witness ==
    /\ ret.op = "get"
    /\ ret.waited
    /\ Len(published[ret.t]) = 2
    /\ published[ret.t][1] # published[ret.t][2]
    /\ ret.val = Some(published[ret.t][1])

\* ---------------------------------------------------------------- C5
\* a getter that waits on its queue while the topic retains a value has a
\* message in that queue
C5_NoMissedValue ==
    \A p \in Procs :
        (pc[p] = "get_next" /\ IsSome(retained[loc[p].t])) => chan[loc[p].q].buf # <<>>

\* a get returns once a publish has completed after its call
C5_GetReturns ==
    \A p \in Procs :
        (loc[p].op = "get" /\ Len(published[loc[p].t]) > loc[p].from) ~> (pc[p] = "idle")

\* C5: no lost wake-up: no getter waits on an empty queue while the topic
\* retains a value, and under fair scheduling a get returns once a publish
\* has completed after its call.
C5_NoLostWakeup == []C5_NoMissedValue /\ C5_GetReturns

\* a getter is about to take the published value from its queue
C5_Witness ==
    \E p \in Procs :
        /\ pc[p] = "get_next"
        /\ IsSome(retained[loc[p].t])
        /\ chan[loc[p].q].buf = published[loc[p].t]

\* ---------------------------------------------------------------- C6
\* a modify that publishes was given the value published right before its own
C6_ReadIsPrevious ==
    (ret.op = "modify" /\ ret.ok) =>
        /\ ret.seen = IF ret.at = 1 THEN None ELSE Some(published[ret.t][ret.at - 1])
        /\ ret.val = ApplyCb(ret.cb, ret.seen)
        /\ published[ret.t][ret.at] = Unwrap(ret.val)

\* with guard transforms as the only writers of a topic that starts at 0,
\* the value changes at most once, and once a modify has returned it has
\* changed exactly once, with one message for a subscriber registered before
C6_GuardChangesOnce ==
    (cfg.cbs = {"guard"} /\ cfg.vals = {}) =>
        \A t \in cfg.topics :
            /\ published[t] \in {<<0>>, <<0, 1>>}
            /\ ret.op = "modify" =>
                  /\ published[t] = <<0, 1>>
                  /\ Current(retained[t]) = Some(1)
            /\ \A i \in 1..Len(senders[t]) :
                  hist[senders[t][i][1]].got = PublishedSince(t, hist[senders[t][i][1]].since)

\* C6: modify is an atomic read-modify-write: the transform is given the
\* value published right before the one it produces, and guard transforms
\* called several times change the value once and cause one fan-out.
C6_ModifyIsAtomic == C6_ReadIsPrevious /\ C6_GuardChangesOnce

\* a second guard modify returns without a change after the first one has
\* published 1 to a subscriber
C6_Witness ==
    /\ cfg.cbs = {"guard"}
    /\ ret.op = "modify"
    /\ ~ret.ok
    /\ ret.seen = Some(1)
    /\ published[ret.t] = <<0, 1>>
    /\ \E i \in 1..Len(senders[ret.t]) : hist[senders[ret.t][i][1]].got = <<1>>

\* ---------------------------------------------------------------- C7
\* the entries of a registry that hold channel q
EntriesOn(regs, q) == Cardinality({i \in 1..Len(regs) : regs[i][2] = q})

Repeat(m, n) == [i \in 1..n |-> m]

\* a fan-out of msg over the registry `before` that leaves `after`: no entry
\* is added, a kept entry has msg recorded once more, a removed entry had a
\* full or closed queue, which is closed now
FannedOut(before, after, msg) ==
    /\ TokensOf(after) \subseteq TokensOf(before)
    /\ \A i \in 1..Len(before) :
          LET k == before[i][1]
              q == before[i][2]
          IN  IF k \in TokensOf(after)
              THEN hist'[k].got = Append(hist[k].got, msg)
              ELSE /\ chan'[q].closed
                   /\ chan[q].closed \/ Len(chan'[q].buf) >= Unwrap(chan[q].cap)

\* process p takes the last step of a modify that publishes: the value is
\* retained, both registries are fanned out, and every queue has the
\* message once more for each kept entry that holds it
C7_ModifyPublishes(p) ==
    LET t == loc[p].t
        v == Unwrap(loc[p].msg)
    IN  /\ Current(retained'[t]) = Some(v)
        /\ FannedOut(senders[t], senders'[t], v)
        /\ FannedOut(senders_serialized[t], senders_serialized'[t], <<Path(t), Encode(v)>>)
        /\ \A q \in Chans :
              chan'[q].buf = chan[q].buf
                             \o Repeat(v, EntriesOn(senders'[t], q))
                             \o Repeat(<<Path(t), Encode(v)>>, EntriesOn(senders_serialized'[t], q))

\* process p takes the step of modify that calls the transform: without a
\* new value modify returns and nothing of the topic or of the queues has
\* changed, with one it goes on to publish it
C7_ModifyDecides(p) ==
    LET t == loc[p].t
        new == ApplyCb(loc[p].cb, Current(retained[t]))
    IN  IF new = None
        THEN /\ pc'[p] = "idle"
             /\ UNCHANGED <<retained, senders, senders_serialized, chan, published, lock, hist>>
        ELSE /\ pc'[p] = "set_senders"
             /\ loc'[p].msg = new
             /\ UNCHANGED <<retained, senders, senders_serialized, chan, published, hist>>

C7_Step ==
    \A p \in Procs :
        /\ (pc[p] = "modify_retained" /\ pc'[p] # "modify_retained") => C7_ModifyDecides(p)
        /\ (pc[p] = "set_serialized" /\ loc[p].op = "modify" /\ pc'[p] = "idle")
              => C7_ModifyPublishes(p)

EncodingsU8 == {Encode(v) : v \in 0..255}

\* b is a JSON text of a u8: one of the encodings with whitespace around
IsJsonU8(b, texts) ==
    \E i \in 0..Len(b), j \in 0..Len(b) :
        /\ i <= j
        /\ SubSeq(b, i + 1, j) \in texts
        /\ \A k \in 1..i : IsWs(b[k])
        /\ \A k \in (j + 1)..Len(b) : IsWs(b[k])

\* set_from_bytes returns an error exactly for the bytes that are not the
\* JSON text of a value, and else has published the value they stand for
C8_Result ==
    ret.op = "set_from_bytes" =>
        IF ret.ok
        THEN /\ IsJsonU8(ret.bytes, {Encode(Unwrap(ret.val))})
             /\ published[ret.t][ret.at] = Unwrap(ret.val)
             /\ Current(retained[ret.t]) = ret.val
        ELSE ~IsJsonU8(ret.bytes, EncodingsU8)

\* the step in which set_from_bytes returns an error changes nothing else
C8_ErrorStep ==
    (ret'.op = "set_from_bytes" /\ ~ret'.ok) =>
        UNCHANGED <<retained, senders, senders_serialized, chan, published, last_input, lock,
                    next_token, handles, hist, pc, loc>>

\* C8: set_from_bytes with bytes that do not decode returns an error and
\* leaves the retained value, its cache, both registries and every queue
\* unchanged; with bytes that decode it publishes the decoded value.
C8_DecodeErrorChangesNothing == []C8_Result /\ [][C8_ErrorStep]_vars

\* an error was returned on a topic with a retained value and a subscriber
C8_Witness ==
    /\ ret.op = "set_from_bytes"
    /\ ~ret.ok
    /\ IsSome(retained[ret.t])
    /\ senders_serialized[ret.t] # <<>>

\* ---------------------------------------------------------------- C9
Canonical(b) == b \in EncodingsU8

\* C9: set_from_bytes of the encoding of a value succeeds, and a
\* try_get_as_bytes that returns while that publish is the last one returns
\* the same bytes.
C9_RoundTrip ==
    /\ (ret.op = "set_from_bytes" /\ Canonical(ret.bytes)) => ret.ok
    /\ (/\ ret.op = "try_get_as_bytes"
        /\ IsSome(last_input[ret.t])
        /\ Canonical(Unwrap(last_input[ret.t])))
          => ret.out = last_input[ret.t]

\* the encoding of 10 has made the round trip
C9_Witness ==
    /\ ret.op = "try_get_as_bytes"
    /\ last_input[ret.t] = Some(Encode(10))
    /\ ret.out = Some(Encode(10))

\* ---------------------------------------------------------------- C10
\* C10: the cache of a retained value is absent or the encoding of that
\* value, which is the last one published; try_get_as_bytes returns the
\* encoding of the last value published, and the last message enqueued for
\* a serialized subscriber is the encoding of the last value published.
C10_CacheIsCurrent ==
    /\ \A t \in Topics :
          /\ IsSome(retained[t]) =>
                LET rv == Unwrap(retained[t])
                IN  /\ published[t] # <<>>
                    /\ rv.native = Last(published[t])
                    /\ rv.serialized \in {None, Some(Encode(rv.native))}
          /\ \A i \in 1..Len(senders_serialized[t]) :
                LET got == hist[senders_serialized[t][i][1]].got
                IN  got # <<>> => Last(got) = <<Path(t), Encode(Last(published[t]))>>
    /\ ret.op = "try_get_as_bytes" =>
          ret.out = IF published[ret.t] = <<>> THEN None
                    ELSE Some(Encode(Last(published[ret.t])))

\* try_get_as_bytes filled the cache of the first value and, after the
\* value was replaced by a different one, returns the encoding of the second
C10_Witness ==
    /\ ret.op = "try_get_as_bytes"
    /\ Len(published[ret.t]) = 2
    /\ published[ret.t][1] # published[ret.t][2]
    /\ ret.out = Some(Encode(published[ret.t][2]))
    /\ Unwrap(retained[ret.t]).serialized = ret.out

\* ---------------------------------------------------------------- C11
\* the unsubscribe that returns in this step found its topic dropped or its
\* token in no entry of its registry
C11_Stale ==
    /\ ret'.op \in {"unsubscribe", "unsubscribe_serialized"}
    /\ \/ ret'.gone
       \/ ret'.op = "unsubscribe" /\ Unwrap(ret'.val) \notin TokensOf(senders[ret'.t])
       \/ /\ ret'.op = "unsubscribe_serialized"
          /\ Unwrap(ret'.val) \notin TokensOf(senders_serialized[ret'.t])

\* such an unsubscribe returns in the step in which it has its registry
\* (or has found the topic dropped), with no lock held and nothing changed
C11_StaleStep ==
    C11_Stale =>
        /\ UNCHANGED <<alive, retained, senders, senders_serialized, chan, published, hist, lock>>
        /\ pc'[ret'.p] = "idle"
        /\ \A n \in DOMAIN lock[ret'.t] : lock'[ret'.t][n] # ret'.p

\* C11: an unsubscribe whose entry is not in the registry any more (evicted
\* for a full queue, dropped for a closed one, removed by an earlier
\* unsubscribe of the same handle) or whose topic is dropped returns, and
\* leaves the retained value, both registries and every queue unchanged.
C11_StaleUnsubscribeNoOp == [][C11_StaleStep]_vars

\* unsubscribe has returned for an entry that a publish had evicted for its
\* full queue
C11_Witness ==
    /\ ret.op = "unsubscribe"
    /\ ~ret.gone
    /\ Unwrap(ret.val) \notin TokensOf(senders[ret.t])
    /\ IsSome(retained[ret.t])
    /\ \E q \in NativeChans : chan[q].closed /\ chan[q].rx /\ Len(chan[q].buf) = Capacity

\* the other cases: the receiver was dropped, the handle was used before,
\* the topic is dropped
C11_WitnessClosed ==
    /\ ret.op = "unsubscribe"
    /\ ~ret.gone /\ ~ret.ok
    /\ \E q \in NativeChans : ~chan[q].rx

C11_WitnessTwice ==
    /\ ret.op = "unsubscribe_serialized"
    /\ ~ret.gone /\ ~ret.ok
    /\ \A q \in UserChans : ~chan[q].closed
    /\ senders_serialized[ret.t] # <<>>

C11_WitnessDropped ==
    /\ ret.op \in {"unsubscribe", "unsubscribe_serialized"}
    /\ ret.gone
    /\ Len(published[ret.t]) > 0

\* ---------------------------------------------------------------- C12
\* the messages of the values published on t after the first `since`, as
\* they are enqueued for an entry of the given registry
Later(t, since, serialized) ==
    IF serialized THEN AsMessages(t, PublishedSince(t, since)) ELSE PublishedSince(t, since)

\* channel q was subscribed once, to one topic, and never before
OnlyEntryOn(q) == Cardinality({h \in handles : h.q = q}) = 1

\* while nobody drains it, the queue of a registered subscriber holds the
\* values published after its registration and nothing else
C12_QueueHoldsLaterOnly ==
    \A t \in Topics :
        /\ \A i \in 1..Len(senders[t]) :
              LET e == senders[t][i]
              IN  /\ hist[e[1]].got = Later(t, hist[e[1]].since, FALSE)
                  /\ OnlyEntryOn(e[2]) => chan[e[2]].buf = Later(t, hist[e[1]].since, FALSE)
        /\ \A i \in 1..Len(senders_serialized[t]) :
              LET e == senders_serialized[t][i]
              IN  /\ hist[e[1]].got = Later(t, hist[e[1]].since, TRUE)
                  /\ OnlyEntryOn(e[2]) => chan[e[2]].buf = Later(t, hist[e[1]].since, TRUE)

\* a step of a subscribe call enqueues nothing
C12_SubscribeStep ==
    \A p \in Procs :
        (/\ pc'[p] # pc[p]
         /\ \/ pc[p] \in {"subscribe_senders", "subscribe_serialized"}
            \/ pc'[p] \in {"subscribe_senders", "subscribe_serialized"})
          => \A q \in Chans : chan'[q].buf = IF chan[q] = DeadChan THEN <<>> ELSE chan[q].buf

\* C12: subscribe, subscribe_unbounded and subscribe_as_bytes enqueue
\* nothing: a subscriber registered after a publish has an empty queue until
\* the next publish, and then its queue holds the values published since its
\* registration only.
C12_NoRetainedOnSubscribe == []C12_QueueHoldsLaterOnly /\ [][C12_SubscribeStep]_vars

\* subscribe_unbounded came after the first publish, and after a second
\* publish of another value its queue holds the second value only
C12_Witness ==
    \E t \in Topics : \E i \in 1..Len(senders[t]) :
        LET e == senders[t][i]
        IN  /\ e[2] \in UnboundedChans
            /\ hist[e[1]].since = 1
            /\ Len(published[t]) = 2
            /\ published[t][1] # published[t][2]
            /\ chan[e[2]].buf = <<published[t][2]>>

\* a bounded native and a serialized subscriber in the same situation
C12_WitnessBounded ==
    \E t \in Topics : \E i \in 1..Len(senders[t]) :
        LET e == senders[t][i]
        IN  /\ e[2] \in NativeChans
            /\ hist[e[1]].since = 1
            /\ Len(published[t]) = 2
            /\ chan[e[2]].buf = <<published[t][2]>>

C12_WitnessBytes ==
    \E t \in Topics : \E i \in 1..Len(senders_serialized[t]) :
        LET e == senders_serialized[t][i]
        IN  /\ hist[e[1]].since = 1
            /\ Len(published[t]) = 2
            /\ chan[e[2]].buf = <<<<Path(t), Encode(published[t][2])>>>>

\* ---------------------------------------------------------------- C13
\* the queue takes a message: it is open and not full
Accepts(ch) == ~ch.closed /\ (IsSome(ch.cap) => Len(ch.buf) < Unwrap(ch.cap))

\* the entries of s whose token is in ks, in the order of s
RECURSIVE Filter(_, _)
Filter(s, ks) ==
    IF s = <<>> THEN <<>>
    ELSE IF Head(s)[1] \in ks THEN <<Head(s)>> \o Filter(Tail(s), ks) ELSE Filter(Tail(s), ks)

\* what a publish of msg does with the entries of the registry `before` that
\* have a queue of their own, judged by the state of that queue alone
C13_EachOnItsOwn(t, before, after, msg) ==
    /\ after = Filter(before, TokensOf(after))
    /\ \A i \in 1..Len(before) :
          LET k == before[i][1]
              q == before[i][2]
          IN  EntriesOn(senders[t], q) + EntriesOn(senders_serialized[t], q) = 1 =>
                  IF Accepts(chan[q])
                  THEN /\ k \in TokensOf(after)
                       /\ chan'[q] = [chan[q] EXCEPT !.buf = Append(@, msg)]
                  ELSE /\ k \notin TokensOf(after)
                       /\ chan'[q] = [chan[q] EXCEPT !.closed = TRUE]

C13_PublishStep ==
    \A p \in Procs :
        (pc[p] = "set_serialized" /\ pc'[p] = "idle") =>
            LET t == loc[p].t
                v == Unwrap(loc[p].msg)
            IN  /\ C13_EachOnItsOwn(t, senders[t], senders'[t], v)
                /\ C13_EachOnItsOwn(t, senders_serialized[t], senders_serialized'[t],
                                    <<Path(t), Encode(v)>>)

\* C13: in one publish, a subscriber whose queue is full or closed is
\* removed, and every other subscriber of either registry whose queue takes
\* the value has it enqueued once and stays registered, in the order of the
\* registry, wherever the failing subscriber stands.
C13_DeliveryIsIndependent == [][C13_PublishStep]_vars

\* a publish has removed the bounded native subscriber, which stood first
\* and whose queue was full, and has delivered to the unbounded native and
\* to the serialized subscriber behind it
C13_Witness ==
    /\ ret.op = "set"
    /\ \E h \in handles, q \in UnboundedChans :
          /\ h.kind = "native"
          /\ h.token \notin TokensOf(senders[ret.t])
          /\ chan[h.q].closed /\ chan[h.q].rx
          /\ Len(senders[ret.t]) = 1
          /\ senders[ret.t][1][2] = q
          /\ senders[ret.t][1][1] > h.token
          /\ chan[q].buf # <<>> /\ Last(chan[q].buf) = Last(published[ret.t])
          /\ Len(chan[q].buf) = Len(chan[h.q].buf) + 1

\* the failing subscriber stood last, and it was the serialized one
C13_WitnessLast ==
    /\ ret.op = "set"
    /\ \E h \in handles, q \in UnboundedChans :
          /\ h.kind = "native"
          /\ h.token \notin TokensOf(senders[ret.t])
          /\ chan[h.q].closed
          /\ Len(senders[ret.t]) = 1
          /\ senders[ret.t][1][2] = q
          /\ senders[ret.t][1][1] < h.token
          /\ chan[q].buf # <<>>

C13_WitnessSerialized ==
    /\ ret.op = "set"
    /\ \E h \in handles :
          /\ h.kind = "serialized"
          /\ h.token \notin TokensOf(senders_serialized[ret.t])
          /\ chan[h.q].closed
          /\ senders[ret.t] # <<>>
          /\ \A i \in 1..Len(senders[ret.t]) :
                LET b == chan[senders[ret.t][i][2]].buf
                IN  b # <<>> /\ Last(b) = Last(published[ret.t])

\* ---------------------------------------------------------------- C14
\* a process holds mutexes of the topic of its call only, and at every
\* lock().await what it holds comes before the mutex it asks for; at no
\* other place does it hold one
C14_LocksInOrder ==
    \A p \in Procs :
        /\ \A t \in Topics : Held(p, t) # {} => (pc[p] # "idle" /\ loc[p].t = t)
        /\ IF Wanted(p) = "none"
           THEN \A t \in Topics : Held(p, t) = {}
           ELSE \A n \in Held(p, loc[p].t) : Rank(n) < Rank(Wanted(p))

\* a mutex is taken by a process that asked for it, from the free state
C14_AcquireStep ==
    \A t \in Topics : \A n \in DOMAIN lock[t] :
        (lock'[t][n] # lock[t][n] /\ lock'[t][n] # Free) =>
            /\ lock[t][n] = Free
            /\ Wanted(lock'[t][n]) = n
            /\ loc[lock'[t][n]].t = t

\* when calls wait for mutexes, one of them finds its mutex free
C14_SomeoneProceeds ==
    (\E p \in Procs : Wanted(p) # "none") =>
        \E p \in Procs : Wanted(p) # "none" /\ lock[loc[p].t][Wanted(p)] = Free

\* C14: the mutexes of a topic are taken in the order retained, senders,
\* senders_serialized and never in another, and no interleaving of the
\* calls on a topic reaches a state in which calls wait for mutexes and none
\* of them can go on.
C14_LockOrderNoDeadlock ==
    /\ []C14_LocksInOrder
    /\ []C14_SomeoneProceeds
    /\ [][C14_AcquireStep]_vars

\* a call waits for a mutex held by a publish that holds two and asks for
\* the third
C14_Witness ==
    \E p \in Procs, o \in Procs :
        /\ p # o
        /\ Wanted(p) # "none"
        /\ lock[loc[p].t][Wanted(p)] = o
        /\ Held(o, loc[p].t) = {"retained", "senders"}
        /\ Wanted(o) = "senders_serialized"

\* ---------------------------------------------------------------- C15
PublishAwaits == {"set_retained", "modify_retained", "set_senders", "set_serialized"}

\* a publish that finds the mutex it asks for free can take its step,
\* whatever the state of the queues
C15_WaitsForMutexOnly ==
    \A p \in Procs :
        (pc[p] \in PublishAwaits /\ lock[loc[p].t][Wanted(p)] = Free) => ENABLED PollPublish(p)

\* C15: every set, modify and set_from_bytes that publishes returns, with
\* subscribers that never drain their queues: it waits for mutexes only, and
\* a subscriber whose queue does not take the value is removed.
C15_PublishCompletes ==
    /\ []C15_WaitsForMutexOnly
    /\ \A p \in Procs : (pc[p] \in PublishAwaits) ~> (pc[p] = "idle")

\* a publish has returned after it removed a subscriber whose queue was full
C15_Witness ==
    /\ ret.op \in {"set", "modify", "set_from_bytes"}
    /\ ret.ok
    /\ \E h \in handles :
          /\ h.token \notin TokensOf(senders[ret.t]) \cup TokensOf(senders_serialized[ret.t])
          /\ chan[h.q].closed
          /\ Len(chan[h.q].buf) = Capacity

\* ---------------------------------------------------------------- C16
\* try_get_as_bytes returns None when the topic never had a value, by a
\* publish or from its construction, and else the encoding of the last one
C16_Result ==
    ret.op = "try_get_as_bytes" =>
        /\ ret.out = None <=> published[ret.t] = <<>>
        /\ ret.out # None => ret.out = Some(Encode(Native(Unwrap(retained[ret.t]))))
        /\ ret.out # None => Native(Unwrap(retained[ret.t])) = Last(published[ret.t])

\* it waits for the mutex of retained and for nothing else
C16_WaitsForMutexOnly ==
    \A p \in Procs :
        (pc[p] = "try_get_retained" /\ lock[loc[p].t].retained = Free)
            => ENABLED TryGetRetained(p)

\* C16: try_get_as_bytes returns absent exactly when the topic never had a
\* value, and else the encoding of the retained value; it returns also when
\* no value ever comes.
C16_TryGetNeverBlocks ==
    /\ []C16_Result
    /\ []C16_WaitsForMutexOnly
    /\ \A p \in Procs : (pc[p] = "try_get_retained") ~> (pc[p] = "idle")

\* try_get_as_bytes has returned absent while a get waits for the first value
C16_Witness ==
    /\ ret.op = "try_get_as_bytes"
    /\ ret.out = None
    /\ \E p \in Procs : pc[p] = "get_next"

\* try_get_as_bytes has returned the encoding of the initial value
C16_WitnessInitial ==
    /\ ret.op = "try_get_as_bytes"
    /\ ret.out = Some(Encode(0))
    /\ Len(published[ret.t]) = 1
    /\ budget = MaxCalls - 1

\* ---------------------------------------------------------------- C17
\* the topic of the call of which process p takes a step
TopicOfStep(p) == IF pc[p] = "idle" THEN loc'[p].t ELSE loc[p].t

\* a step of a call on one topic leaves the retained value, the registries
\* and the mutexes of every other topic as they were
C17_OtherTopicsUntouched ==
    \A p \in Procs :
        pc'[p] # pc[p] =>
            \A u \in Topics \ {TopicOfStep(p)} :
                /\ retained'[u] = retained[u]
                /\ senders'[u] = senders[u]
                /\ senders_serialized'[u] = senders_serialized[u]
                /\ lock'[u] = lock[u]
                /\ published'[u] = published[u]

\* a call that finds the mutex of its own topic free can take its step,
\* whoever holds the mutexes of the other topics
C17_WaitsForOwnMutexOnly ==
    \A p \in Procs :
        (Wanted(p) # "none" /\ lock[loc[p].t][Wanted(p)] = Free) => ENABLED PollTopics(p)

\* C17: a set, modify, subscribe or unsubscribe on one topic leaves the
\* retained value and both registries of every other topic unchanged and
\* never waits for a mutex of another topic.
C17_TopicsAreIndependent == [][C17_OtherTopicsUntouched]_vars /\ []C17_WaitsForOwnMutexOnly

\* a publish on one topic has returned while a publish on another topic
\* holds two mutexes of that one, and a queue is subscribed to both
C17_Witness ==
    /\ ret.op \in {"set", "modify"}
    /\ \E p \in Procs, u \in Topics \ {ret.t} :
          /\ Held(p, u) = {"retained", "senders"}
          /\ \E q \in NativeChans : q \in ChansOf(senders[u]) \cap ChansOf(senders[ret.t])

\* ---------------------------------------------------------------- C18
\* the publishes on t that have fanned their value out and not yet retained it
InFlight(t) == {p \in Procs : pc[p] = "set_assign" /\ loc[p].t = t}

\* the mutex of retained of t is held by a set or modify
PublisherHolds(t) ==
    /\ lock[t].retained # Free
    /\ loc[lock[t].retained].op \in {"set", "set_from_bytes", "modify"}

\* between fan-out and assignment the publish holds the three mutexes; when
\* no publish holds the mutex of retained, no value is fanned out and not
\* retained, and the last message of every subscriber is the retained value
C18_RetainedIsLastFannedOut ==
    \A t \in Topics :
        /\ \A p \in InFlight(t) : Held(p, t) = DOMAIN lock[t]
        /\ ~PublisherHolds(t) =>
              /\ InFlight(t) = {}
              /\ \A i \in 1..Len(senders[t]) :
                    LET got == hist[senders[t][i][1]].got
                    IN  got # <<>> => Some(Last(got)) = Current(retained[t])
              /\ \A i \in 1..Len(senders_serialized[t]) :
                    LET got == hist[senders_serialized[t][i][1]].got
                    IN  got # <<>> =>
                            Last(got) = <<Path(t), Encode(Native(Unwrap(retained[t])))>>

\* a step in which get, try_get_as_bytes, subscribe or unsubscribe reads or
\* writes the retained value or a registry is taken when no value is fanned
\* out and not retained
C18_ObserverStep ==
    \A p \in Procs :
        (/\ pc'[p] # pc[p]
         /\ pc[p] \in {"get_retained", "get_subscribe", "get_unsubscribe", "try_get_retained",
                       "subscribe_senders", "subscribe_serialized", "unsubscribe_senders",
                       "unsubscribe_serialized"})
          => InFlight(loc[p].t) = {}

\* what get and try_get_as_bytes return is retained, or was
C18_ReturnsRetained ==
    /\ ret.op = "get" =>
          /\ InFlight(ret.t) = {}
          /\ IF ret.waited THEN ret.val = Some(published[ret.t][ret.at + 1])
             ELSE ret.val = Some(published[ret.t][ret.at])
    /\ ret.op = "try_get_as_bytes" /\ ret.out # None =>
          /\ InFlight(ret.t) = {}
          /\ ret.out = Some(Encode(published[ret.t][ret.at]))

\* C18: whenever no set or modify holds the mutex of retained, the retained
\* value is the last value fanned out; get, try_get_as_bytes, subscribe and
\* unsubscribe read and write only states in which every value fanned out is
\* retained.
C18_PublishIsAtomic ==
    /\ []C18_RetainedIsLastFannedOut
    /\ []C18_ReturnsRetained
    /\ [][C18_ObserverStep]_vars

\* a subscriber of the encoded values has been sent the retained value
C18_WitnessSerialized ==
    \E t \in Topics :
        /\ ~PublisherHolds(t)
        /\ \E i \in 1..Len(senders_serialized[t]) : hist[senders_serialized[t][i][1]].got # <<>>

\* a get has taken the value from its queue while the publish has not
\* assigned it yet: it waits in unsubscribe for the mutex of the registry
C18_Witness ==
    \E p \in Procs, o \in Procs :
        /\ pc[p] = "get_unsubscribe"
        /\ pc[o] = "set_assign"
        /\ loc[p].t = loc[o].t
        /\ loc[p].msg = loc[o].msg
        /\ retained[loc[p].t] = None

\* ---------------------------------------------------------------- C19
\* the values fanned out on t, in the order of the fan-outs: the publish
\* sequence and the value of the publish that has not assigned it yet
Fanned(t) ==
    IF InFlight(t) = {} THEN published[t]
    ELSE Append(published[t], Unwrap(loc[CHOOSE p \in InFlight(t) : TRUE].msg))

\* what is enqueued through an entry is the segment of the fanned-out values
\* from its registration to the last of them
C19_Segment ==
    \A t \in Topics :
        /\ \A i \in 1..Len(senders[t]) :
              LET h == hist[senders[t][i][1]]
              IN  /\ h.since <= Len(published[t])
                  /\ h.got = SubSeq(Fanned(t), h.since + 1, Len(Fanned(t)))
        /\ \A i \in 1..Len(senders_serialized[t]) :
              LET h == hist[senders_serialized[t][i][1]]
              IN  /\ h.since <= Len(published[t])
                  /\ h.got = AsMessages(t, SubSeq(Fanned(t), h.since + 1, Len(Fanned(t))))

\* the push of subscribe and subscribe_as_bytes: no publish is between its
\* fan-out and its end, nothing is enqueued, and the entry starts after the
\* publishes that are complete
C19_RegisterStep ==
    \A p \in Procs :
        (pc[p] \in {"subscribe_senders", "subscribe_serialized"} /\ pc'[p] # pc[p]) =>
            LET t == loc[p].t
            IN  /\ InFlight(t) = {}
                /\ \A o \in Procs : pc'[o] # "set_assign"
                /\ hist'[loc[p].tok] = [since |-> Len(published[t]), got |-> <<>>]
                /\ loc[p].tok \in TokensOf(senders'[t]) \cup TokensOf(senders_serialized'[t])
                /\ chan' = chan
                /\ published' = published

\* the fan-out of a publish: every entry that is registered and stays so is
\* sent the value, once, and no entry is added
C19_FanOutStep ==
    \A o \in Procs :
        (pc[o] = "set_serialized" /\ pc'[o] = "set_assign") =>
            LET t == loc[o].t
                msg == Unwrap(loc[o].msg)
            IN  /\ TokensOf(senders'[t]) \subseteq TokensOf(senders[t])
                /\ TokensOf(senders_serialized'[t]) \subseteq TokensOf(senders_serialized[t])
                /\ \A k \in TokensOf(senders'[t]) : hist'[k].got = Append(hist[k].got, msg)
                /\ \A k \in TokensOf(senders_serialized'[t]) :
                      hist'[k].got = Append(hist[k].got, <<Path(t), Encode(msg)>>)

\* C19: a subscribe that runs while a publish is in progress is registered
\* before the fan-out of that publish, and is sent its value, or after its
\* end, and is sent the values from the next publish on; what is enqueued
\* through an entry while it is registered is a segment of the publish
\* sequence without gap or duplicate.
C19_SubscribeDuringPublish ==
    /\ []C19_Segment
    /\ [][C19_RegisterStep /\ C19_FanOutStep]_vars

\* a subscribe was called and registered while a publish held the mutex of
\* retained and had not fanned out
C19_Witness ==
    /\ ret.op \in {"subscribe", "subscribe_as_bytes"}
    /\ \E o \in Procs :
          /\ pc[o] \in {"set_senders", "set_serialized"}
          /\ loc[o].t = ret.t
          /\ loc[o].from = ret.from

\* that subscriber has been sent the value of the publish
C19_WitnessBefore ==
    \E o \in Procs, h \in handles :
        /\ pc[o] = "set_assign"
        /\ h.t = loc[o].t
        /\ h.since = Len(published[h.t])
        /\ h.token \in TokensOf(senders[h.t])
        /\ hist[h.token].got = <<Unwrap(loc[o].msg)>>

\* a subscribe was called before the end of a publish and registered after
\* it: its entry starts with the next publish
C19_WitnessAfter ==
    /\ ret.op \in {"subscribe", "subscribe_as_bytes"}
    /\ ret.from < ret.at
    /\ hist[Unwrap(ret.val)] = [since |-> ret.at, got |-> <<>>]

\* ---------------------------------------------------------------- C20
\* a retained value is encoded once at most, and it is encoded exactly when
\* its cache is filled
C20_EncodedOnceAtMost ==
    \A t \in Topics :
        IsSome(retained[t]) =>
            LET rv == Unwrap(retained[t])
            IN  /\ rv.encodes <= 1
                /\ rv.encodes = 1 <=> IsSome(rv.serialized)

\* the last step of a publish: its value is encoded once when the registry
\* of serialized subscribers is not empty, whatever its length, and not at
\* all when it is empty
C20_PublishStep ==
    \A p \in Procs :
        (pc[p] = "set_serialized" /\ pc'[p] # pc[p]) =>
            LET t == loc[p].t
            IN  Unwrap(retained'[t]).encodes = IF senders_serialized[t] = <<>> THEN 0 ELSE 1

\* try_get_as_bytes on a value: it returns the bytes of the cache when the
\* cache is filled and leaves the value as it is, and encodes the value
\* when the cache is empty
C20_TryGetStep ==
    \A p \in Procs :
        (pc[p] = "try_get_retained" /\ pc'[p] # pc[p] /\ IsSome(retained[loc[p].t])) =>
            LET old == Unwrap(retained[loc[p].t])
                new == Unwrap(retained'[loc[p].t])
            IN  /\ new.native = old.native
                /\ new.encodes = 1
                /\ ret'.out = new.serialized
                /\ IsSome(old.serialized) => new = old /\ ret'.out = old.serialized

\* C20: the encoding of a published value is computed once at most for a
\* publish, whatever the number of serialized subscribers, and every
\* try_get_as_bytes before the next publish returns that result; a publish
\* without a serialized subscriber does not compute it, the first
\* try_get_as_bytes after it does.
C20_EncodedOncePerPublish ==
    /\ []C20_EncodedOnceAtMost
    /\ [][C20_PublishStep /\ C20_TryGetStep]_vars

\* a publish with two entries in the registry of serialized subscribers has
\* called serialized() for each of them: the value was encoded once
C20_Witness ==
    /\ ret.op = "set"
    /\ Len(published[ret.t]) = 1
    /\ Cardinality({h \in handles : h.kind = "serialized" /\ h.t = ret.t /\ h.since = 0}) = 2
    /\ Unwrap(retained[ret.t]).encodes = 1

\* a topic that never had a serialized subscriber: the publish has not
\* encoded its value
C20_WitnessNotEncoded ==
    /\ ret.op = "set"
    /\ \A h \in handles : h.kind # "serialized"
    /\ Unwrap(retained[ret.t]).encodes = 0

\* and a try_get_as_bytes after it has
C20_WitnessLazy ==
    /\ ret.op = "try_get_as_bytes"
    /\ \A h \in handles : h.kind # "serialized"
    /\ \A p \in Procs : pc[p] = "idle"
    /\ budget = 0
    /\ Len(published[ret.t]) = 1
    /\ Unwrap(retained[ret.t]).encodes = 1

\* ---------------------------------------------------------------- C21
\* the entries of registry regs whose queue is closed
ClosedIn(regs) == {i \in 1..Len(regs) : chan[regs[i][2]].closed}

\* the fan-out of a publish on t: every entry whose queue was closed before
\* is removed, a closed queue is as it was, and the publish returns
C21_PublishStep ==
    \A p \in Procs :
        (pc[p] = "set_serialized" /\ pc'[p] # pc[p]) =>
            LET t == loc[p].t
            IN  /\ \A i \in ClosedIn(senders[t]) :
                      senders[t][i][1] \notin TokensOf(senders'[t])
                /\ \A i \in ClosedIn(senders_serialized[t]) :
                      senders_serialized[t][i][1] \notin TokensOf(senders_serialized'[t])
                /\ \A q \in Chans : chan[q].closed => chan'[q] = chan[q]
                /\ ret'.op = loc[p].op
                /\ ret'.at = Len(published[t]) + 1
                /\ retained'[t] = Some(NewRetained(Unwrap(loc[p].msg)))
                      \/ retained'[t] = Some(CacheFilled(NewRetained(Unwrap(loc[p].msg))))

\* a step that is not the fan-out of a publish on t leaves the registries of
\* t with every entry they had: the closing of a queue removes no entry
C21_OtherStep ==
    \A t \in Topics :
        (\A p \in Procs : ~(pc[p] = "set_serialized" /\ pc'[p] # pc[p] /\ loc[p].t = t)) =>
            /\ TokensOf(senders[t]) \subseteq TokensOf(senders'[t])
            /\ TokensOf(senders_serialized[t]) \subseteq TokensOf(senders_serialized'[t])

\* C21: an entry whose queue is closed, by the drop of its receiver or by an
\* eviction on another topic, stays in the registry until the next publish
\* on its topic; that publish removes it, enqueues nothing to the queue, and
\* completes.
C21_ClosedRemovedByNextPublish == [][C21_PublishStep /\ C21_OtherStep]_vars

\* one queue subscribed to two topics was closed by an eviction on topic 1,
\* and the publish on topic 2 has removed its entry there
C21_Witness ==
    /\ ret.op = "set"
    /\ ret.t = 2
    /\ Len(published[1]) = 2
    /\ Len(published[2]) = 1
    /\ \A t \in {1, 2} : \E h \in handles : h.t = t /\ h.q = 1 /\ h.since = 0
    /\ chan[1].closed
    /\ chan[1].rx
    /\ Len(chan[1].buf) = 1
    /\ senders[2] = <<>>

\* the receiver was dropped, and the entry is still there: no publish yet
C21_WitnessStays ==
    \E t \in Topics :
        /\ ClosedIn(senders[t]) # {}
        /\ ~chan[1].rx
        /\ \A p \in Procs : pc[p] = "idle"

\* the receiver was dropped and the publish has removed the entry
C21_WitnessDropped ==
    /\ ret.op = "set"
    /\ ~chan[1].rx
    /\ chan[1].buf = <<>>
    /\ senders[ret.t] = <<>>
    /\ \E h \in handles : h.t = ret.t /\ h.since = 0
    /\ Len(published[ret.t]) = 1

\* ---------------------------------------------------------------- C22
\* the processes in get() that wait for the first value
Getters == {p \in Procs : pc[p] = "get_next"}

\* while get waits at rx.next() its queue is unbounded and open and its
\* receiver is held; as long as the queue is empty its entry is in the
\* registry; and no get has met the end of the stream
C22_TemporaryStays ==
    \A p \in Procs :
        /\ pc[p] # "panicked"
        /\ p \in Getters =>
              LET ch == chan[loc[p].q]
              IN  /\ ch.rx
                  /\ ch.cap = None
                  /\ ~ch.closed
                  /\ ch.buf = <<>> => loc[p].tok \in TokensOf(senders[loc[p].t])
                  /\ Len(ch.buf) = Len(hist[loc[p].tok].got)

\* the entry of a get leaves the registry in the unsubscribe of that get,
\* after it has taken its value, and in no other step
C22_RemovedByItself ==
    \A p \in Procs :
        (/\ pc[p] \in {"get_next", "get_unsubscribe"}
         /\ loc[p].tok \in TokensOf(senders[loc[p].t])
         /\ loc[p].tok \notin TokensOf(senders'[loc[p].t]))
          => pc[p] = "get_unsubscribe" /\ pc'[p] = "idle" /\ IsSome(loc[p].msg)

\* C22: the entry that get() makes on a topic without a value is not removed
\* from the registry before a value is enqueued to it, whatever set, modify
\* and the unsubscribe calls of others do; rx.next() never yields the end
\* of the stream and the unwrap in get() does not fail.
C22_GetNeverFails == []C22_TemporaryStays /\ [][C22_RemovedByItself]_vars

\* another subscriber, registered before the get, has unsubscribed while the
\* get waits: swap_remove has moved the entry of the get to the front
C22_Witness ==
    /\ ret.op = "unsubscribe"
    /\ ret.ok
    /\ \E p \in Getters :
          /\ ret.t = loc[p].t
          /\ Unwrap(ret.val) < loc[p].tok
          /\ senders[loc[p].t] = <<(<<loc[p].tok, loc[p].q>>)>>
          /\ chan[loc[p].q].buf = <<>>

\* a get that waited has taken its value and returned
C22_WitnessReturned ==
    /\ ret.op = "get"
    /\ ret.waited
    /\ IsSome(ret.val)

\* ---------------------------------------------------------------- C23
\* the tokens that subscribe and subscribe_as_bytes have handed out: those
\* of the handles that are held and those of the handles that an unsubscribe
\* in progress has taken
Explicit ==
    {h.token : h \in handles}
        \cup {loc[p].tok : p \in {r \in Procs : pc[r] \in {"unsubscribe_senders",
                                                          "unsubscribe_serialized"}}}

\* the tokens of the get calls that are between their subscribe and the end
\* of their unsubscribe
Temporary == {loc[p].tok : p \in {r \in Procs : pc[r] \in {"get_next", "get_unsubscribe"}}}

\* an entry of the native registry is one of subscribe or the one of a get
\* that has not returned; get makes no entry in the serialized registry
C23_OnlyExplicit ==
    \A t \in Topics :
        /\ TokensOf(senders[t]) \subseteq Explicit \cup Temporary
        /\ TokensOf(senders_serialized[t]) \subseteq Explicit
        /\ Explicit \cap Temporary = {}

\* the steps of get: with a retained value it returns it and touches no
\* registry and no queue; else it takes the head of its queue, one value,
\* and its unsubscribe removes its entry and no other before it returns
C23_GetStep ==
    \A p \in Procs :
        LET t == loc[p].t
            q == loc[p].q
        IN  /\ (pc[p] = "get_retained" /\ pc'[p] = "idle") =>
                  /\ senders' = senders
                  /\ senders_serialized' = senders_serialized
                  /\ chan' = chan
                  /\ next_token' = next_token
                  /\ ret'.op = "get" /\ ~ret'.waited
            /\ (pc[p] = "get_next" /\ pc'[p] # pc[p]) =>
                  /\ chan[q].buf # <<>>
                  /\ chan' = [chan EXCEPT ![q].buf = Tail(chan[q].buf)]
                  /\ loc'[p].msg = Some(Head(chan[q].buf))
                  /\ senders' = senders
            /\ (pc[p] = "get_unsubscribe" /\ pc'[p] # pc[p]) =>
                  /\ TokensOf(senders'[t]) = TokensOf(senders[t]) \ {loc[p].tok}
                  /\ Len(senders'[t]) = Cardinality(TokensOf(senders'[t]))
                  /\ senders_serialized' = senders_serialized
                  /\ ret'.op = "get" /\ ret'.waited /\ ret'.val = loc[p].msg
                  /\ pc'[p] = "idle"

\* C23: get() leaves no entry behind.  With a retained value it adds none;
\* when it had to wait it takes one value and its entry is out of the
\* native registry when it returns: the registries hold the entries of
\* subscribe and subscribe_as_bytes and those of the get calls in progress.
C23_GetLeavesNothing == []C23_OnlyExplicit /\ [][C23_GetStep]_vars

\* a get that waited has returned next to a subscriber: the registry holds
\* the entry of the subscriber only
C23_Witness ==
    /\ ret.op = "get"
    /\ ret.waited
    /\ \A p \in Procs : pc[p] = "idle"
    /\ Len(senders[ret.t]) = 1
    /\ TokensOf(senders[ret.t]) \subseteq Explicit

\* a get has returned the retained value at once
C23_WitnessRetained ==
    /\ ret.op = "get"
    /\ ~ret.waited
    /\ \A t \in Topics : senders[t] = <<>>

\* ---------------------------------------------------------------- C24
\* the last n elements of sequence s
Suffix(s, n) == SubSeq(s, Len(s) - n + 1, Len(s))

\* the entries of the serialized registries, as <<topic, token, queue>>
SerializedEntries ==
    UNION {{<<t, senders_serialized[t][i][1], senders_serialized[t][i][2]>> :
               i \in 1..Len(senders_serialized[t])} : t \in Topics}

\* the queue of a serialized subscriber holds, of the pairs (path of the
\* topic, encoding of the value) of the publishes since its registration,
\* those that were not taken yet; the last is the encoding of the retained
\* value, the bytes of try_get_as_bytes
C24_QueueHoldsPairs ==
    \A e \in SerializedEntries :
        LET t == e[1]
            buf == chan[e[3]].buf
            all == AsMessages(t, PublishedSince(t, hist[e[2]].since))
        IN  OnlyEntryOn(e[3]) =>
                /\ Len(buf) <= Len(all)
                /\ buf = Suffix(all, Len(buf))
                /\ buf # <<>> =>
                      /\ Last(buf) = <<Path(t), Serialized(Unwrap(retained[t]))>>
                      /\ Last(buf)[2] = Encode(Native(Unwrap(retained[t])))

\* what try_get_as_bytes returns is the bytes of the last pair enqueued
C24_SameAsTryGet ==
    (ret.op = "try_get_as_bytes" /\ IsSome(ret.out)) =>
        \A e \in SerializedEntries :
            (e[1] = ret.t /\ hist[e[2]].got # <<>>) =>
                Last(hist[e[2]].got) = <<Path(ret.t), Unwrap(ret.out)>>

\* after set_from_bytes the pair holds the encoding of the decoded value
C24_Reencoded ==
    (ret.op = "set_from_bytes" /\ ret.ok) =>
        \A e \in SerializedEntries :
            (e[1] = ret.t /\ OnlyEntryOn(e[3]) /\ chan[e[3]].buf # <<>>) =>
                /\ Last(chan[e[3]].buf) = <<Path(ret.t), Encode(Unwrap(Decode(ret.bytes)))>>
                /\ ~Canonical(ret.bytes) => Last(chan[e[3]].buf)[2] # ret.bytes

\* C24: a serialized subscriber is sent, for every publish, the pair of the
\* path of the topic and the encoding of the published value, the bytes
\* that try_get_as_bytes returns until the next publish; for a publish
\* through set_from_bytes that is the encoding of the decoded value, not the
\* input of the caller.
C24_SerializedDelivery == C24_QueueHoldsPairs /\ C24_SameAsTryGet /\ C24_Reencoded

\* set_from_bytes with an input that is not the encoding of its value has
\* sent the encoding to a serialized subscriber
C24_Witness ==
    /\ ret.op = "set_from_bytes"
    /\ ret.ok
    /\ ~Canonical(ret.bytes)
    /\ \E e \in SerializedEntries :
          /\ e[1] = ret.t
          /\ OnlyEntryOn(e[3])
          /\ chan[e[3]].buf = <<(<<Path(ret.t), Encode(Unwrap(Decode(ret.bytes)))>>)>>

\* try_get_as_bytes has returned the bytes a subscriber was sent
C24_WitnessTryGet ==
    /\ ret.op = "try_get_as_bytes"
    /\ IsSome(ret.out)
    /\ \E e \in SerializedEntries : e[1] = ret.t /\ hist[e[2]].got # <<>>

\* ---------------------------------------------------------------- C25
\* the tokens of the entries of topic t
Registered(t) == TokensOf(senders[t]) \cup TokensOf(senders_serialized[t])

\* the processes whose unsubscribe returns in this step
Unsubscribing(p) ==
    /\ pc[p] \in {"unsubscribe_senders", "unsubscribe_serialized"}
    /\ pc'[p] = "idle"

\* the queue of the entry that the unsubscribe of p removes, or 0
QueueOf(p) ==
    LET regs == IF pc[p] = "unsubscribe_senders" THEN senders[loc[p].t]
                ELSE senders_serialized[loc[p].t]
        idx == Position(regs, loc[p].tok)
    IN  IF idx = 0 THEN 0 ELSE regs[idx][2]

\* when unsubscribe returns the entry of its token is in no registry, and no
\* queue has lost or got a message
C25_EntryGone ==
    \A p \in Procs :
        Unsubscribing(p) =>
            /\ loc[p].tok \notin TokensOf(senders'[loc[p].t])
            /\ loc[p].tok \notin TokensOf(senders_serialized'[loc[p].t])
            /\ \A q \in Chans : chan'[q].buf = chan[q].buf /\ chan'[q].rx = chan[q].rx

\* unsubscribe closes no queue
C25_LeavesOpen ==
    \A p \in Procs :
        Unsubscribing(p) => \A q \in Chans : chan'[q].closed = chan[q].closed

\* unsubscribe closes the queue of its entry when the Sender in the entry
\* was the last one, and no other queue
C25_ClosesWithLastSender ==
    \A p \in Procs :
        Unsubscribing(p) =>
            \A q \in Chans :
                chan'[q].closed =
                    (\/ chan[q].closed
                     \/ /\ q = QueueOf(p)
                        /\ ~HasSender(q, loc[p].t, senders'[loc[p].t],
                                      senders_serialized'[loc[p].t]))

\* the fan-out of a publish on t changes the queues of the entries of t
\* only, and enqueues for registered tokens only
C25_PublishToRegistered ==
    \A p \in Procs :
        (pc[p] = "set_serialized" /\ pc'[p] # pc[p]) =>
            LET t == loc[p].t
            IN  /\ \A q \in Chans :
                      chan'[q] # chan[q] =>
                          q \in ChansOf(senders[t]) \cup ChansOf(senders_serialized[t])
                /\ \A k \in Tokens : hist'[k].got # hist[k].got => k \in Registered(t)

\* a token enters a registry in the push of the subscribe that made it with
\* Unique::new, and tokens are made in increasing order: the token of a
\* handle whose unsubscribe has returned is never registered again
C25_TokensAreFresh ==
    /\ next_token' >= next_token
    /\ \A p \in Procs :
          (pc[p] = "idle" /\ pc'[p] \in {"subscribe_senders", "subscribe_serialized"}) =>
              loc'[p].tok = next_token /\ next_token' = next_token + 1
    /\ \A t \in Topics :
          \A k \in (TokensOf(senders'[t]) \cup TokensOf(senders_serialized'[t])) \ Registered(t) :
              \E p \in Procs :
                  /\ pc[p] \in {"subscribe_senders", "subscribe_serialized"}
                  /\ pc'[p] = "idle"
                  /\ loc[p].tok = k

\* every token in use was made before
C25_TokensAreOld ==
    /\ \A t \in Topics : \A k \in Registered(t) : k < next_token
    /\ \A h \in handles : h.token < next_token
    /\ \A p \in Procs :
          pc[p] \in {"subscribe_senders", "subscribe_serialized", "unsubscribe_senders",
                     "unsubscribe_serialized"} => loc[p].tok < next_token
    /\ (ret.op \in {"unsubscribe", "unsubscribe_serialized"} /\ ~ret.gone) =>
          /\ Unwrap(ret.val) < next_token
          /\ Unwrap(ret.val) \notin Registered(ret.t)

\* C25 as stated: once unsubscribe has returned no later publish enqueues a
\* value through its entry, and unsubscribe closes no queue.
C25_UnsubscribeLeavesOpen ==
    /\ []C25_TokensAreOld
    /\ [][C25_EntryGone /\ C25_PublishToRegistered /\ C25_TokensAreFresh /\ C25_LeavesOpen]_vars

\* C25: once unsubscribe has returned no later publish enqueues a value
\* through its entry; unsubscribe does not call close, and the queue is
\* closed by it exactly when the entry held its last Sender, as the entry of
\* subscribe_unbounded does.
C25_UnsubscribedGetsNothing ==
    /\ []C25_TokensAreOld
    /\ [][/\ C25_EntryGone
          /\ C25_PublishToRegistered
          /\ C25_TokensAreFresh
          /\ C25_ClosesWithLastSender]_vars

\* the handle of subscribe_unbounded was unsubscribed: the queue, whose
\* receiver is held, is closed
C25_Witness ==
    /\ ret.op = "unsubscribe"
    /\ ret.ok
    /\ \E q \in UnboundedChans : chan[q].closed /\ chan[q].rx /\ chan[q].cap = None

\* the handle of subscribe was unsubscribed after a publish and a later
\* publish has returned: the queue is open and holds the one value
C25_WitnessOpen ==
    /\ ret.op = "set"
    /\ ret.at = 2
    /\ senders[ret.t] = <<>>
    /\ \E q \in NativeChans : ~chan[q].closed /\ Len(chan[q].buf) = 1
    /\ handles = {}
    /\ next_token = 2

\* unsubscribe has returned while a publish holds the mutex of retained and
\* has not fanned out
C25_WitnessConcurrent ==
    /\ ret.op \in {"unsubscribe", "unsubscribe_serialized"}
    /\ ret.ok
    /\ \E o \in Procs : pc[o] \in {"set_senders", "set_serialized"} /\ loc[o].t = ret.t

\* ---------------------------------------------------------------- C26
\* the entries of a registry as a set
EntrySet(regs) == {regs[i] : i \in 1..Len(regs)}

\* no token is in two entries, of one registry or of two
C26_DistinctTokens ==
    /\ \A t \in Topics :
          /\ Cardinality(TokensOf(senders[t])) = Len(senders[t])
          /\ Cardinality(TokensOf(senders_serialized[t])) = Len(senders_serialized[t])
          /\ TokensOf(senders[t]) \cap TokensOf(senders_serialized[t]) = {}
    /\ \A t, u \in Topics : t # u => Registered(t) \cap Registered(u) = {}

\* unsubscribe removes the entry of its token from the registry of its kind
\* and leaves every other entry, the other registry, the other topics, the
\* retained values and what was sent to the others as they are
C26_UnsubscribeFrame ==
    \A p \in Procs :
        Unsubscribing(p) =>
            LET t == loc[p].t
                k == loc[p].tok
                Others(regs) == {e \in EntrySet(regs) : e[1] # k}
            IN  /\ IF pc[p] = "unsubscribe_senders"
                   THEN /\ EntrySet(senders'[t]) = Others(senders[t])
                        /\ Len(senders'[t]) = Cardinality(Others(senders[t]))
                        /\ senders_serialized' = senders_serialized
                   ELSE /\ EntrySet(senders_serialized'[t]) = Others(senders_serialized[t])
                        /\ Len(senders_serialized'[t]) = Cardinality(Others(senders_serialized[t]))
                        /\ senders' = senders
                /\ \A u \in Topics \ {t} : senders'[u] = senders[u]
                /\ retained' = retained
                /\ published' = published
                /\ \A j \in Tokens \ {k} : hist'[j] = hist[j]

\* the entries that are registered have been sent every publish since their
\* registration
C26_OthersKeepReceiving ==
    \A t \in Topics :
        /\ \A e \in EntrySet(senders[t]) :
              hist[e[1]].got = SubSeq(published[t], hist[e[1]].since + 1, Len(published[t]))
        /\ \A e \in EntrySet(senders_serialized[t]) :
              Len(hist[e[1]].got) = Len(published[t]) - hist[e[1]].since

\* C26: the entries of the registries carry distinct tokens, and unsubscribe
\* removes at most the one entry with the token of its handle, from the
\* registry of its kind: every other subscriber stays registered, at
\* whatever position, and is sent the later publishes; the retained value
\* stays.
C26_UnsubscribeRemovesOne ==
    /\ []C26_DistinctTokens
    /\ []C26_OthersKeepReceiving
    /\ [][C26_UnsubscribeFrame]_vars

\* the first of two native entries was unsubscribed, the second one is now
\* the first, and it was sent the publish that followed
C26_Witness ==
    /\ ret.op = "set"
    /\ next_token = 3
    /\ Cardinality(handles) = 1
    /\ \E h \in handles :
          /\ h.token = 2
          /\ senders[ret.t] = <<(<<2, h.q>>)>>
          /\ hist[2].got = <<Unwrap(ret.val)>>

\* unsubscribe of a native handle has returned and a serialized entry is
\* where it was
C26_WitnessOtherKind ==
    /\ ret.op = "unsubscribe"
    /\ ret.ok
    /\ senders_serialized[ret.t] # <<>>

\* ---------------------------------------------------------------- C27
\* a retained slot with a value has one after every step
C27_StaysRetained == \A t \in Topics : IsSome(retained[t]) => IsSome(retained'[t])

\* a topic on which a publish is complete, or which was built with a value,
\* has a retained value
C27_RetainedOncePublished == \A t \in Topics : published[t] # <<>> => IsSome(retained[t])

\* on a topic with a value get returns in the step in which it holds the
\* mutex of retained, with no entry and no wait, and try_get_as_bytes
\* returns bytes
C27_ReadStep ==
    \A p \in Procs :
        (/\ pc[p] \in {"get_retained", "try_get_retained"}
         /\ pc'[p] # pc[p]
         /\ published[loc[p].t] # <<>>)
          => /\ pc'[p] = "idle"
             /\ IF pc[p] = "get_retained"
                THEN ret'.op = "get" /\ ~ret'.waited /\ IsSome(ret'.val)
                ELSE ret'.op = "try_get_as_bytes" /\ IsSome(ret'.out)

\* a get that waited and a try_get_as_bytes without bytes found a topic on
\* which nothing was published
C27_WaitedOnEmpty ==
    /\ (ret.op = "get" /\ ret.waited) => ret.at = 0
    /\ (ret.op = "try_get_as_bytes" /\ ret.out = None) => ret.at = 0

\* C27: the retained slot of a topic never goes back to empty: once a
\* publish is complete, or when the topic was built with a value, every
\* later state has a retained value, get does not wait and
\* try_get_as_bytes returns bytes.
C27_RetainedNeverEmptied ==
    /\ []C27_RetainedOncePublished
    /\ []C27_WaitedOnEmpty
    /\ [][C27_StaysRetained /\ C27_ReadStep]_vars

\* a modify whose closure returns None has returned on a topic with a
\* value, and the value is there
C27_Witness ==
    /\ ret.op = "modify"
    /\ ~ret.ok
    /\ IsSome(ret.seen)
    /\ retained[ret.t] = Some(NewRetained(Unwrap(ret.seen)))

\* a topic built with a value: get returns it without a publish
C27_WitnessInitial ==
    /\ ret.op = "get"
    /\ ~ret.waited
    /\ published[ret.t] = <<0>>
    /\ budget = MaxCalls - 1


\* ---------------------------------------------------------------- C28
\* the process that runs the screensaver task
ScreensaverTask == NumProcs

\* the steps of the task and of the publishers it may wait for, which the
\* executor takes in the end; the timeout and new calls are not among them
TaskProgress ==
    \/ \E p \in Procs : TaskNext(p)
    \/ \E p \in Procs : ModifyRetained(p)
    \/ \E p \in Procs : SetRetained(p)
    \/ \E p \in Procs : SetSenders(p)
    \/ \E p \in Procs : SetSerialized(p)

FairSpecScreen == SpecScreen /\ WF_vars(TaskProgress)

\* the decision of the task is taken on the value retained at the step of
\* modify that holds the retained lock: ScreenSaver is published only for a
\* value that permits it, and otherwise nothing of the screen topic or of a
\* queue changes
C28_Decision ==
    (pc[ScreensaverTask] = "modify_retained" /\ pc'[ScreensaverTask] # "modify_retained")
        => LET cur == Current(retained[Screen])
           IN  IF IsSome(cur) /\ UseScreensaver(Unwrap(cur))
               THEN /\ pc'[ScreensaverTask] = "set_senders"
                    /\ loc'[ScreensaverTask].msg = Some(ScreenSaver)
                    /\ loc'[ScreensaverTask].seen = cur
                    /\ lock'[Screen].retained = ScreensaverTask
               ELSE /\ pc'[ScreensaverTask] = "task_wait"
                    /\ UNCHANGED <<topicVars, chan, lock>>

\* between the decision and the publish of the task nobody publishes to the
\* screen topic, and the publish of the task replaces the value it decided on
C28_NoStaleRead ==
    (pc[ScreensaverTask] \in {"set_senders", "set_serialized"})
        => /\ lock[Screen].retained = ScreensaverTask
           /\ \/ UNCHANGED <<retained[Screen], published[Screen]>>
              \/ /\ pc[ScreensaverTask] = "set_serialized"
                 /\ pc'[ScreensaverTask] = "task_wait"
                 /\ Current(retained[Screen]) = loc[ScreensaverTask].seen
                 /\ UseScreensaver(Unwrap(loc[ScreensaverTask].seen))
                 /\ Current(retained'[Screen]) = Some(ScreenSaver)
                 /\ published'[Screen] = Append(published[Screen], ScreenSaver)

\* the screen topic changes by the task only with that publish
C28_OnlyByModify ==
    (pc[ScreensaverTask] # pc'[ScreensaverTask] /\ pc[ScreensaverTask] # "set_serialized")
        => UNCHANGED <<retained[Screen], published[Screen]>>

\* the timeout fires only while no button event is queued, and taking an
\* event leaves the task waiting and the topics as they are
C28_EventKeepsAwake ==
    /\ (pc[ScreensaverTask] = "task_wait" /\ chan[TaskChan].buf # <<>>)
          => pc'[ScreensaverTask] = "task_wait"
    /\ (pc[ScreensaverTask] = "task_wait" /\ chan'[TaskChan].buf # chan[TaskChan].buf
           /\ Len(chan'[TaskChan].buf) < Len(chan[TaskChan].buf))
          => pc'[ScreensaverTask] = "task_wait" /\ UNCHANGED topicVars
    /\ (pc[ScreensaverTask] # "modify_retained" /\ pc'[ScreensaverTask] = "modify_retained")
          => /\ pc[ScreensaverTask] = "task_wait"
             /\ chan[TaskChan].buf = <<>>
             /\ ~chan[TaskChan].closed

\* the task leaves its loop only at the end of the stream of button events,
\* and never comes back
C28_EndsOnlyWhenClosed ==
    /\ (pc[ScreensaverTask] # "task_ended" /\ pc'[ScreensaverTask] = "task_ended")
          => /\ pc[ScreensaverTask] = "task_wait"
             /\ chan[TaskChan].closed
             /\ chan[TaskChan].buf = <<>>
    /\ pc[ScreensaverTask] = "task_ended" => pc'[ScreensaverTask] = "task_ended"

\* C28: when the timeout of the buttons fires, the screensaver task sets the
\* screen topic to ScreenSaver only if the screen topic, at the step of modify
\* that holds the retained lock, has a value that permits the screensaver, and
\* otherwise leaves the topic and every queue as they are; no publish to the
\* screen topic comes between that decision and the publish of the task; a
\* queued button event keeps the timeout from firing; and once the button
\* topic is dropped, which closes the queue, the task ends
C28_ScreensaverDecidesInModify ==
    /\ [][/\ C28_Decision
          /\ C28_NoStaleRead
          /\ C28_OnlyByModify
          /\ C28_EventKeepsAwake
          /\ C28_EndsOnlyWhenClosed]_vars
    /\ (~alive[Buttons] ~> pc[ScreensaverTask] = "task_ended")

\* the task has activated the screensaver over a value that was set while
\* the task was running
C28_Witness ==
    /\ ret.op = "modify"
    /\ ret.p = ScreensaverTask
    /\ ret.ok
    /\ published[Screen] = <<1, 0, ScreenSaver>>
    /\ Current(retained[Screen]) = Some(ScreenSaver)

\* the timeout fired on a screen that does not permit the screensaver
C28_WitnessRefused ==
    /\ ret.op = "modify"
    /\ ret.p = ScreensaverTask
    /\ ~ret.ok
    /\ ret.seen = Some(1)
    /\ pc[ScreensaverTask] = "task_wait"

\* the timeout fired while a set of the screen topic held the retained lock
C28_WitnessConcurrent ==
    /\ pc[ScreensaverTask] = "modify_retained"
    /\ \E p \in Procs : pc[p] = "set_senders" /\ loc[p].t = Screen /\ loc[p].op = "set"

\* the task is over after the button topic was dropped with events queued
C28_WitnessEnded ==
    /\ pc[ScreensaverTask] = "task_ended"
    /\ ~alive[Buttons]
    /\ Len(published[Buttons]) > 0


\* ---------------------------------------------------------------- C29
\* the process that runs the polling thread
PollingThread == NumProcs

\* the thread is inside an iteration: it has loaded the flag and has not
\* published yet, or it has panicked there
InIteration ==
    pc[PollingThread] \in {"thread_read", "set_retained", "set_senders", "set_serialized",
                           "thread_panicked"}

\* the closure of the thread is over
Terminated == pc[PollingThread] \in {"thread_ended", "thread_panicked"}

\* after the drop at most one more measurement is published
C29_AtMostOneMore ==
    polled.dropped => /\ ~run
                      /\ Len(published[Soc]) <= polled.at_drop + 1

\* every iteration that reached its end has published one measurement
C29_OnePerIteration ==
    Len(published[Soc]) = polled.iterations - (IF InIteration THEN 1 ELSE 0)

\* the thread returns only after the drop
C29_EndsOnlyDropped ==
    pc[PollingThread] = "thread_ended" => polled.dropped

\* while the object is not dropped a thread at the head of the loop begins
\* the next iteration
C29_GoesOn ==
    (pc[PollingThread] = "thread_load" /\ pc'[PollingThread] # "thread_load" /\ ~polled.dropped)
        => pc'[PollingThread] = "thread_read"

\* C29: after the Temperatures object is dropped its polling thread
\* publishes to soc_temperature at most one more time and then terminates;
\* a thread that is not dropped begins the next iteration at the head of its
\* loop, and every iteration that comes to its end publishes one measurement
C29_ThreadStopsAfterDrop ==
    /\ [](C29_AtMostOneMore /\ C29_OnePerIteration /\ C29_EndsOnlyDropped)
    /\ [][C29_GoesOn]_vars
    /\ (polled.dropped ~> Terminated)

\* the object was dropped in the middle of an iteration: the thread has
\* published once more and returned
C29_Witness ==
    /\ polled.dropped
    /\ polled.at_drop >= 1
    /\ Len(published[Soc]) = polled.at_drop + 1
    /\ pc[PollingThread] = "thread_ended"

\* the object was dropped while the thread slept: nothing more is published
C29_WitnessNoMore ==
    /\ polled.dropped
    /\ polled.at_drop >= 1
    /\ Len(published[Soc]) = polled.at_drop
    /\ pc[PollingThread] = "thread_ended"

\* the thread has made as many publishes as the bound lets it, not dropped
C29_WitnessRunning ==
    /\ ~polled.dropped
    /\ Len(published[Soc]) = MaxCalls
    /\ pc[PollingThread] = "thread_load"

=============================================================================
